---- MODULE Spec2Model ----
(***************************************************************************)
(* Ledger and execution engine of the crypto paper-trading system.         *)
(*                                                                         *)
(* The SQLite store (database.py) is the record 'db' with one field per    *)
(* table.  PaperAccount (account.py) and TradeExecutor (executor.py) are   *)
(* operators that take a store and return the store their writes produce.  *)
(* Python floats are modelled by the exact rational number they stand for  *)
(* (a record [n, d] in lowest terms); binary rounding is not modelled.     *)
(***************************************************************************)
EXTENDS Integers, Sequences, FiniteSets, TLC

(***************************************************************************)
(* Bounds of the model.                                                    *)
(***************************************************************************)
MaxTrades == 2
MaxSnapshots == 2
MaxCalls == 2
MaxSeries == 4

(***************************************************************************)
(* Exact arithmetic standing for Python's float operators.                 *)
(***************************************************************************)
\* Python's None
None == [none |-> TRUE]

Abs(x) == IF x < 0 THEN -x ELSE x

RECURSIVE GCD(_, _)
GCD(a, b) == IF b = 0 THEN a ELSE GCD(b, a % b)

LCM(a, b) == (a \div GCD(a, b)) * b

Rat(n, d) == LET g == GCD(Abs(n), d) IN [n |-> n \div g, d |-> d \div g]

Num(k) == [n |-> k, d |-> 1]

Zero == Num(0)

RAdd(a, b) == LET l == LCM(a.d, b.d)
              IN Rat(a.n * (l \div a.d) + b.n * (l \div b.d), l)

RNeg(a) == [n |-> 0 - a.n, d |-> a.d]

RSub(a, b) == RAdd(a, RNeg(b))

RMul(a, b) == LET g1 == GCD(Abs(a.n), b.d)
                  g2 == GCD(Abs(b.n), a.d)
              IN Rat((a.n \div g1) * (b.n \div g2), (a.d \div g2) * (b.d \div g1))

RInv(a) == IF a.n > 0 THEN [n |-> a.d, d |-> a.n] ELSE [n |-> 0 - a.d, d |-> 0 - a.n]

RDiv(a, b) == RMul(a, RInv(b))

RLe(a, b) == LET l == LCM(a.d, b.d)
             IN a.n * (l \div a.d) <= b.n * (l \div b.d)

RLt(a, b) == ~RLe(b, a)

RGe(a, b) == RLe(b, a)

RGt(a, b) == ~RLe(a, b)

(***************************************************************************)
(* config.py                                                               *)
(***************************************************************************)
TRADING_PAIRS == {"BTC/USD", "ETH/USD"}

STARTING_BALANCE_USDT == 10000

TRADING_FEE_PERCENT == Rat(1, 10)

(***************************************************************************)
(* Inputs of the model: the oracle's closes, the quote amounts a caller    *)
(* asks to spend and the starting balances an account is built with.       *)
(***************************************************************************)
Closes(symbol) ==
    IF symbol = "BTC/USD" THEN {Num(50000), Num(40000)} ELSE {Num(2000)}

QuoteAmounts(symbol) ==
    IF symbol = "BTC/USD" THEN {Num(0), Num(1000), Num(2000)} ELSE {Num(1000)}

StartingBalanceArgs == {None, Num(2002)}

FixedSellAmount == Rat(1, 50)

\* db: the SQLite store; starting_balance: PaperAccount.starting_balance;
\* lastOp: the latest call; lastResult: what the latest executor or snapshot
\* call returned (None once a candle is stored or the account is written
\* directly; reset_account returns nothing and leaves it);
\* pc, frame, started: position and local variables of each caller that is
\* inside market_buy when its store calls are taken one at a time
\* last_crossover: RsiEmaStrategy._last_crossover, "none" standing for Python's
\* None; analyzed: the arguments of the latest analyze call (None before the
\* first); seq: what the series of analyze calls made with no position held
\* has shown so far
VARIABLES db, starting_balance, lastOp, lastResult, pc, frame, started,
          last_crossover, analyzed, seq

vars == <<db, starting_balance, lastOp, lastResult, pc, frame, started,
          last_crossover, analyzed, seq>>

strategyVars == <<last_crossover, analyzed, seq>>

\* no call of a series made yet
NoSeries ==
    [calls |-> 0, buys |-> 0, oversold_bullish |-> 0, fell |-> FALSE, rose |-> FALSE,
     dipped |-> FALSE, crossed |-> FALSE, last |-> None]

Callers == {1, 2}

callerVars == <<pc, frame, started>>

(***************************************************************************)
(* database.py                                                             *)
(***************************************************************************)
EmptyDatabase ==
    [ohlcv |-> [s \in TRADING_PAIRS |-> None],
     trades |-> <<>>,
     positions |-> [s \in TRADING_PAIRS |-> None],
     account |-> None,
     equity_history |-> <<>>]

save_ohlcv(d, symbol, close) == [d EXCEPT !.ohlcv[symbol] = close]

get_latest_price(d, symbol) == d.ohlcv[symbol]

\* the new row put in front of the older ones
log_trade_in_front(d, symbol, side, amount, price, fee, pnl) ==
    [d EXCEPT !.trades = <<[symbol |-> symbol, side |-> side,
                            amount |-> amount, price |-> price,
                            fee |-> fee, pnl |-> pnl]>> \o @]

log_trade(d, symbol, side, amount, price, fee, pnl) ==
    [d EXCEPT !.trades = Append(@, [symbol |-> symbol, side |-> side,
                                    amount |-> amount, price |-> price,
                                    fee |-> fee, pnl |-> pnl])]

database_get_position(d, symbol) == d.positions[symbol]

\* the row deleted only below zero
database_update_position_strict(d, symbol, amount, avg_entry_price) ==
    IF RLt(amount, Zero)
    THEN [d EXCEPT !.positions[symbol] = None]
    ELSE [d EXCEPT !.positions[symbol] =
              [amount |-> amount, avg_entry_price |-> avg_entry_price]]

database_update_position(d, symbol, amount, avg_entry_price) ==
    IF RLe(amount, Zero)
    THEN [d EXCEPT !.positions[symbol] = None]
    ELSE [d EXCEPT !.positions[symbol] =
              [amount |-> amount, avg_entry_price |-> avg_entry_price]]

database_get_all_positions(d) ==
    {s \in TRADING_PAIRS : d.positions[s] # None /\ RGt(d.positions[s].amount, Zero)}

get_account(d) == d.account

update_account(d, cash_balance, total_equity) ==
    [d EXCEPT !.account = [cash_balance |-> cash_balance,
                           total_equity |-> total_equity]]

initialize_account(d, balance) ==
    IF get_account(d) = None THEN update_account(d, balance, balance) ELSE d

\* a value equal to the latest row not stored again
record_equity_once(d, equity) ==
    IF d.equity_history # <<>> /\ d.equity_history[Len(d.equity_history)] = equity
    THEN d
    ELSE [d EXCEPT !.equity_history = Append(@, equity)]

record_equity(d, equity) == [d EXCEPT !.equity_history = Append(@, equity)]

\* the equity_history table left out of the deletes
\* a reset that leaves the cached candles in place
reset_database_keeps_prices(d) == [EmptyDatabase EXCEPT !.ohlcv = d.ohlcv]

reset_database_keeps_history(d) == [EmptyDatabase EXCEPT !.equity_history = d.equity_history]

reset_database(d) == EmptyDatabase

(***************************************************************************)
(* account.py: PaperAccount                                                *)
(***************************************************************************)
\* the percentage used without the division by 100
fee_percent_unconverted == TRADING_FEE_PERCENT

fee_percent == RDiv(TRADING_FEE_PERCENT, Num(100))

\* account.py 57-78: the account row is created when it is missing
get_account_info(d, balance) ==
    LET d1 == IF get_account(d) = None THEN initialize_account(d, balance) ELSE d
    IN [db |-> d1,
        result |-> [cash_balance |-> get_account(d1).cash_balance,
                    total_equity |-> get_account(d1).total_equity,
                    positions |-> database_get_all_positions(d1)]]

get_cash_balance(d) ==
    IF get_account(d) # None THEN get_account(d).cash_balance ELSE Zero

\* a lookup that never finds the position
get_position_never_found(d, symbol) == None

get_position(d, symbol) == database_get_position(d, symbol)

get_all_positions(d) == database_get_all_positions(d)

calculate_fee(amount_usdt) == RMul(amount_usdt, fee_percent)

\* the comparison made strict
can_afford_strict(d, amount_usdt) ==
    LET fee == calculate_fee(amount_usdt)
        total_cost == RAdd(amount_usdt, fee)
        cash == get_cash_balance(d)
    IN RGt(cash, total_cost)

\* the cash compared with the fee instead of the total cost
can_afford_fee_only(d, amount_usdt) ==
    LET fee == calculate_fee(amount_usdt)
        cash == get_cash_balance(d)
    IN RGe(cash, fee)

can_afford(d, amount_usdt) ==
    LET fee == calculate_fee(amount_usdt)
        total_cost == RAdd(amount_usdt, fee)
        cash == get_cash_balance(d)
    IN RGe(cash, total_cost)

\* value of one position as calculate_total_equity's loop body adds it
position_value(d, symbol) ==
    LET position == d.positions[symbol]
        current_price == get_latest_price(d, symbol)
    IN IF current_price # None /\ current_price # Zero
       THEN RMul(position.amount, current_price)
       ELSE RMul(position.amount, position.avg_entry_price)

RECURSIVE positions_value(_, _)
positions_value(d, symbols) ==
    IF symbols = {} THEN Zero
    ELSE LET s == CHOOSE x \in symbols : TRUE
         IN RAdd(position_value(d, s), positions_value(d, symbols \ {s}))

calculate_total_equity(d, cash_balance) ==
    LET cash == IF cash_balance = None THEN get_cash_balance(d) ELSE cash_balance
    IN RAdd(cash, positions_value(d, get_all_positions(d)))

\* the equity recomputed from the stored cash instead of the new balance
update_cash_balance_stale(d, new_balance) ==
    update_account(d, new_balance, calculate_total_equity(d, None))

update_cash_balance(d, new_balance) ==
    update_account(d, new_balance, calculate_total_equity(d, new_balance))

update_position(d, symbol, amount, avg_entry_price) ==
    LET d1 == database_update_position(d, symbol, amount, avg_entry_price)
        cash == get_cash_balance(d1)
        total_equity == calculate_total_equity(d1, cash)
    IN update_account(d1, cash, total_equity)

record_equity_snapshot(d) ==
    LET equity == calculate_total_equity(d, None)
    IN [db |-> record_equity(d, equity), result |-> equity]

reset_account(d, balance) == initialize_account(reset_database(d), balance)

(***************************************************************************)
(* executor.py: TradeExecutor                                              *)
(***************************************************************************)
Epsilon == Rat(1, 1000000)

Failure(error, symbol, side) ==
    [success |-> FALSE, error |-> error, symbol |-> symbol, side |-> side]

\* the balance tested before the price is looked up
market_buy_rejection_balance_first(d, symbol, amount_usdt) ==
    LET price == get_latest_price(d, symbol)
    IN IF RLe(amount_usdt, Zero) THEN "InvalidAmount"
       ELSE IF ~can_afford(d, amount_usdt) THEN "InsufficientBalance"
       ELSE IF price = None THEN "NoPriceData"
       ELSE "none"

\* executor.py 91-122: the checks of market_buy, "none" when all pass
market_buy_rejection(d, symbol, amount_usdt) ==
    LET price == get_latest_price(d, symbol)
    IN IF RLe(amount_usdt, Zero) THEN "InvalidAmount"
       ELSE IF price = None THEN "NoPriceData"
       ELSE IF ~can_afford(d, amount_usdt) THEN "InsufficientBalance"
       ELSE "none"

\* the new average taken as the plain mean of the old average and the price
market_buy_position_mean(d, symbol, amount_usdt) ==
    LET price == get_latest_price(d, symbol)
        crypto_amount == RDiv(amount_usdt, price)
        existing_position == get_position(d, symbol)
        new_amount == RAdd(existing_position.amount, crypto_amount)
        new_avg_price == RDiv(RAdd(existing_position.avg_entry_price, price), Num(2))
    IN IF existing_position # None
       THEN update_position(d, symbol, new_amount, new_avg_price)
       ELSE update_position(d, symbol, crypto_amount, price)

\* the new quote amount taken off the old cost instead of added to it
market_buy_position_cost_off(d, symbol, amount_usdt) ==
    LET price == get_latest_price(d, symbol)
        crypto_amount == RDiv(amount_usdt, price)
        existing_position == get_position(d, symbol)
        old_amount == existing_position.amount
        old_avg_price == existing_position.avg_entry_price
        old_cost == RMul(old_amount, old_avg_price)
        new_amount == RAdd(old_amount, crypto_amount)
        new_avg_price == RDiv(RSub(old_cost, amount_usdt), new_amount)
    IN IF existing_position # None
       THEN update_position(d, symbol, new_amount, new_avg_price)
       ELSE update_position(d, symbol, crypto_amount, price)

\* executor.py 124-142: the position write of market_buy
market_buy_position(d, symbol, amount_usdt) ==
    LET price == get_latest_price(d, symbol)
        crypto_amount == RDiv(amount_usdt, price)
        existing_position == get_position(d, symbol)
        old_amount == existing_position.amount
        old_avg_price == existing_position.avg_entry_price
        old_cost == RMul(old_amount, old_avg_price)
        new_amount == RAdd(old_amount, crypto_amount)
        new_avg_price == RDiv(RAdd(old_cost, amount_usdt), new_amount)
    IN IF existing_position # None
       THEN update_position(d, symbol, new_amount, new_avg_price)
       ELSE update_position(d, symbol, crypto_amount, price)

\* the buy fee booked as a realized loss of the buy
market_buy_fill_fee_in_pnl(d, symbol, amount_usdt) ==
    LET price == get_latest_price(d, symbol)
        fee == calculate_fee(amount_usdt)
        total_cost == RAdd(amount_usdt, fee)
        crypto_amount == RDiv(amount_usdt, price)
        d1 == market_buy_position(d, symbol, amount_usdt)
        new_cash == RSub(get_cash_balance(d1), total_cost)
        d2 == update_cash_balance(d1, new_cash)
        d3 == log_trade(d2, symbol, "buy", crypto_amount, price, fee, RNeg(fee))
    IN [db |-> d3,
        result |-> [success |-> TRUE, symbol |-> symbol, side |-> "buy",
                    amount |-> crypto_amount, price |-> price,
                    cost |-> amount_usdt, fee |-> fee,
                    total_cost |-> total_cost]]

\* the cash reduced by the quote amount alone, the fee left out
market_buy_fill_fee_free(d, symbol, amount_usdt) ==
    LET price == get_latest_price(d, symbol)
        fee == calculate_fee(amount_usdt)
        total_cost == RAdd(amount_usdt, fee)
        crypto_amount == RDiv(amount_usdt, price)
        d1 == market_buy_position(d, symbol, amount_usdt)
        new_cash == RSub(get_cash_balance(d1), amount_usdt)
        d2 == update_cash_balance(d1, new_cash)
        d3 == log_trade(d2, symbol, "buy", crypto_amount, price, fee, Zero)
    IN [db |-> d3,
        result |-> [success |-> TRUE, symbol |-> symbol, side |-> "buy",
                    amount |-> crypto_amount, price |-> price,
                    cost |-> amount_usdt, fee |-> fee,
                    total_cost |-> total_cost]]

\* executor.py 110-112 and 124-174: an accepted market_buy
market_buy_fill(d, symbol, amount_usdt) ==
    LET price == get_latest_price(d, symbol)
        fee == calculate_fee(amount_usdt)
        total_cost == RAdd(amount_usdt, fee)
        crypto_amount == RDiv(amount_usdt, price)
        d1 == market_buy_position(d, symbol, amount_usdt)
        new_cash == RSub(get_cash_balance(d1), total_cost)
        d2 == update_cash_balance(d1, new_cash)
        d3 == log_trade(d2, symbol, "buy", crypto_amount, price, fee, Zero)
    IN [db |-> d3,
        result |-> [success |-> TRUE, symbol |-> symbol, side |-> "buy",
                    amount |-> crypto_amount, price |-> price,
                    cost |-> amount_usdt, fee |-> fee,
                    total_cost |-> total_cost]]

\* the balance check placed after the position write
market_buy_checks_late(d, symbol, amount_usdt) ==
    LET error == market_buy_rejection(d, symbol, amount_usdt)
    IN IF error = "InsufficientBalance"
       THEN [db |-> market_buy_position(d, symbol, amount_usdt),
             result |-> Failure(error, symbol, "buy")]
       ELSE IF error # "none"
       THEN [db |-> d, result |-> Failure(error, symbol, "buy")]
       ELSE market_buy_fill(d, symbol, amount_usdt)

market_buy(d, symbol, amount_usdt) ==
    LET error == market_buy_rejection(d, symbol, amount_usdt)
    IN IF error # "none"
       THEN [db |-> d, result |-> Failure(error, symbol, "buy")]
       ELSE market_buy_fill(d, symbol, amount_usdt)

\* the price looked up before the position is read
market_sell_rejection_price_first(d, symbol, amount_crypto) ==
    LET position == get_position(d, symbol)
        price == get_latest_price(d, symbol)
    IN IF RLe(amount_crypto, Zero) THEN "InvalidAmount"
       ELSE IF price = None THEN "NoPriceData"
       ELSE IF position = None THEN "NoPosition"
       ELSE IF RLt(position.amount, amount_crypto) THEN "InsufficientPosition"
       ELSE "none"

\* executor.py 209-245: the checks of market_sell, "none" when all pass
market_sell_rejection(d, symbol, amount_crypto) ==
    LET position == get_position(d, symbol)
        price == get_latest_price(d, symbol)
    IN IF RLe(amount_crypto, Zero) THEN "InvalidAmount"
       ELSE IF position = None THEN "NoPosition"
       ELSE IF RLt(position.amount, amount_crypto) THEN "InsufficientPosition"
       ELSE IF price = None THEN "NoPriceData"
       ELSE "none"

\* the gross proceeds credited to the cash balance
market_sell_fill_gross_cash(d, symbol, amount_crypto) ==
    LET position == get_position(d, symbol)
        price == get_latest_price(d, symbol)
        gross_proceeds == RMul(amount_crypto, price)
        fee == calculate_fee(gross_proceeds)
        net_proceeds == RSub(gross_proceeds, fee)
        entry_cost == RMul(amount_crypto, position.avg_entry_price)
        realized_pnl == RSub(net_proceeds, entry_cost)
        new_amount == RSub(position.amount, amount_crypto)
        d1 == IF RLe(new_amount, Epsilon)
              THEN update_position(d, symbol, Zero, Zero)
              ELSE update_position(d, symbol, new_amount, position.avg_entry_price)
        new_cash == RAdd(get_cash_balance(d1), gross_proceeds)
        d2 == update_cash_balance(d1, new_cash)
        d3 == log_trade(d2, symbol, "sell", amount_crypto, price, fee, realized_pnl)
    IN [db |-> d3,
        result |-> [success |-> TRUE, symbol |-> symbol, side |-> "sell",
                    amount |-> amount_crypto, price |-> price,
                    gross_proceeds |-> gross_proceeds, fee |-> fee,
                    net_proceeds |-> net_proceeds, pnl |-> realized_pnl]]

\* the buy-side fee rate taken off the proceeds a second time
market_sell_fill_double_fee(d, symbol, amount_crypto) ==
    LET position == get_position(d, symbol)
        price == get_latest_price(d, symbol)
        gross_proceeds == RMul(amount_crypto, price)
        fee == calculate_fee(gross_proceeds)
        net_proceeds == RSub(RSub(gross_proceeds, fee), fee)
        entry_cost == RMul(amount_crypto, position.avg_entry_price)
        realized_pnl == RSub(net_proceeds, entry_cost)
        new_amount == RSub(position.amount, amount_crypto)
        d1 == IF RLe(new_amount, Epsilon)
              THEN update_position(d, symbol, Zero, Zero)
              ELSE update_position(d, symbol, new_amount, position.avg_entry_price)
        new_cash == RAdd(get_cash_balance(d1), net_proceeds)
        d2 == update_cash_balance(d1, new_cash)
        d3 == log_trade(d2, symbol, "sell", amount_crypto, price, fee, realized_pnl)
    IN [db |-> d3,
        result |-> [success |-> TRUE, symbol |-> symbol, side |-> "sell",
                    amount |-> amount_crypto, price |-> price,
                    gross_proceeds |-> gross_proceeds, fee |-> fee,
                    net_proceeds |-> net_proceeds, pnl |-> realized_pnl]]

\* the realized pnl taken from the gross proceeds, the fee not counted
market_sell_fill_gross_pnl(d, symbol, amount_crypto) ==
    LET position == get_position(d, symbol)
        price == get_latest_price(d, symbol)
        gross_proceeds == RMul(amount_crypto, price)
        fee == calculate_fee(gross_proceeds)
        net_proceeds == RSub(gross_proceeds, fee)
        entry_cost == RMul(amount_crypto, position.avg_entry_price)
        realized_pnl == RSub(gross_proceeds, entry_cost)
        new_amount == RSub(position.amount, amount_crypto)
        d1 == IF RLe(new_amount, Epsilon)
              THEN update_position(d, symbol, Zero, Zero)
              ELSE update_position(d, symbol, new_amount, position.avg_entry_price)
        new_cash == RAdd(get_cash_balance(d1), net_proceeds)
        d2 == update_cash_balance(d1, new_cash)
        d3 == log_trade(d2, symbol, "sell", amount_crypto, price, fee, realized_pnl)
    IN [db |-> d3,
        result |-> [success |-> TRUE, symbol |-> symbol, side |-> "sell",
                    amount |-> amount_crypto, price |-> price,
                    gross_proceeds |-> gross_proceeds, fee |-> fee,
                    net_proceeds |-> net_proceeds, pnl |-> realized_pnl]]

\* the position closed only when nothing at all is left of it
market_sell_fill_exact_close(d, symbol, amount_crypto) ==
    LET position == get_position(d, symbol)
        price == get_latest_price(d, symbol)
        gross_proceeds == RMul(amount_crypto, price)
        fee == calculate_fee(gross_proceeds)
        net_proceeds == RSub(gross_proceeds, fee)
        entry_cost == RMul(amount_crypto, position.avg_entry_price)
        realized_pnl == RSub(net_proceeds, entry_cost)
        new_amount == RSub(position.amount, amount_crypto)
        d1 == IF RLe(new_amount, Zero)
              THEN update_position(d, symbol, Zero, Zero)
              ELSE update_position(d, symbol, new_amount, position.avg_entry_price)
        new_cash == RAdd(get_cash_balance(d1), net_proceeds)
        d2 == update_cash_balance(d1, new_cash)
        d3 == log_trade(d2, symbol, "sell", amount_crypto, price, fee, realized_pnl)
    IN [db |-> d3,
        result |-> [success |-> TRUE, symbol |-> symbol, side |-> "sell",
                    amount |-> amount_crypto, price |-> price,
                    gross_proceeds |-> gross_proceeds, fee |-> fee,
                    net_proceeds |-> net_proceeds, pnl |-> realized_pnl]]

\* executor.py 247-302: an accepted market_sell
market_sell_fill(d, symbol, amount_crypto) ==
    LET position == get_position(d, symbol)
        price == get_latest_price(d, symbol)
        gross_proceeds == RMul(amount_crypto, price)
        fee == calculate_fee(gross_proceeds)
        net_proceeds == RSub(gross_proceeds, fee)
        entry_cost == RMul(amount_crypto, position.avg_entry_price)
        realized_pnl == RSub(net_proceeds, entry_cost)
        new_amount == RSub(position.amount, amount_crypto)
        d1 == IF RLe(new_amount, Epsilon)
              THEN update_position(d, symbol, Zero, Zero)
              ELSE update_position(d, symbol, new_amount, position.avg_entry_price)
        new_cash == RAdd(get_cash_balance(d1), net_proceeds)
        d2 == update_cash_balance(d1, new_cash)
        d3 == log_trade(d2, symbol, "sell", amount_crypto, price, fee, realized_pnl)
    IN [db |-> d3,
        result |-> [success |-> TRUE, symbol |-> symbol, side |-> "sell",
                    amount |-> amount_crypto, price |-> price,
                    gross_proceeds |-> gross_proceeds, fee |-> fee,
                    net_proceeds |-> net_proceeds, pnl |-> realized_pnl]]

market_sell(d, symbol, amount_crypto) ==
    LET error == market_sell_rejection(d, symbol, amount_crypto)
    IN IF error # "none"
       THEN [db |-> d, result |-> Failure(error, symbol, "sell")]
       ELSE market_sell_fill(d, symbol, amount_crypto)

\* the price looked up before the position is read
sell_all_price_first(d, symbol) ==
    LET position == get_position(d, symbol)
    IN IF get_latest_price(d, symbol) = None
       THEN [db |-> d, result |-> Failure("NoPriceData", symbol, "sell")]
       ELSE IF position = None
       THEN [db |-> d, result |-> Failure("NoPosition", symbol, "sell")]
       ELSE market_sell(d, symbol, position.amount)

sell_all(d, symbol) ==
    LET position == get_position(d, symbol)
    IN IF position = None
       THEN [db |-> d, result |-> Failure("NoPosition", symbol, "sell")]
       ELSE market_sell(d, symbol, position.amount)

(***************************************************************************)
(* strategies/rsi_ema_strategy.py: RsiEmaStrategy.  A DataFrame is the      *)
(* record [len, columns, current, previous]: its length, its column names, *)
(* and the fields analyze reads of its last row and of the row before.     *)
(***************************************************************************)
RSI_OVERSOLD == 30

RSI_OVERBOUGHT == 70

\* RsiEmaStrategy() as main.py builds it: the thresholds of config.py
rsi_oversold == Num(RSI_OVERSOLD)

rsi_overbought == Num(RSI_OVERBOUGHT)

\* a missing value of a DataFrame
NaN == [nan |-> TRUE]

isna(x) == x = NaN

\* Python's > and < on floats: False when either side is NaN
FGt(a, b) == a # NaN /\ b # NaN /\ RGt(a, b)

FLt(a, b) == a # NaN /\ b # NaN /\ RLt(a, b)

RMin(a, b) == IF RLe(a, b) THEN a ELSE b

required == {"close", "rsi", "ema_fast", "ema_slow"}

StrategyResult(signal, confidence, indicators) ==
    [signal |-> signal, confidence |-> confidence, indicators |-> indicators]

\* rsi_ema_strategy.py 79-115: HOLD with confidence 0, or "none" to go on
analyze_precondition(df) ==
    IF df.len < 3 THEN "Insufficient data for analysis"
    ELSE IF required \ df.columns # {} THEN "Missing indicators"
    ELSE IF isna(df.current.rsi) \/ isna(df.current.ema_fast)
              \/ isna(df.current.ema_slow)
    THEN "Indicator values not available yet"
    ELSE "none"

\* rsi_ema_strategy.py 125-130
current_above(df) == FGt(df.current.ema_fast, df.current.ema_slow)

\* equal averages on the previous row counted as above
prev_above_or_level(df) ==
    /\ df.previous.ema_fast # NaN
    /\ df.previous.ema_slow # NaN
    /\ RGe(df.previous.ema_fast, df.previous.ema_slow)

prev_above(df) == FGt(df.previous.ema_fast, df.previous.ema_slow)

bullish_crossover(df) == ~prev_above(df) /\ current_above(df)

\* a bearish crossover only once the fast average is strictly below
bearish_crossover_strictly_below(df) ==
    prev_above(df) /\ FLt(df.current.ema_fast, df.current.ema_slow)

bearish_crossover(df) == prev_above(df) /\ ~current_above(df)

\* the memory cleared on a call that sees no crossover
track_crossover_cleared(self_last_crossover, df) ==
    IF bullish_crossover(df) THEN "bullish"
    ELSE IF bearish_crossover(df) THEN "bearish"
    ELSE "none"

\* rsi_ema_strategy.py 132-136
track_crossover(self_last_crossover, df) ==
    IF bullish_crossover(df) THEN "bullish"
    ELSE IF bearish_crossover(df) THEN "bearish"
    ELSE self_last_crossover

\* the buy confidence with the difference taken the wrong way round
analyze_signal_confidence_slip(tracked, df, position) ==
    LET rsi == df.current.rsi
        indicators == [rsi |-> rsi, ema_fast |-> df.current.ema_fast,
                       ema_slow |-> df.current.ema_slow, close |-> df.current.close]
        is_oversold == FLt(rsi, rsi_oversold)
        ema_bullish == current_above(df) \/ tracked = "bullish"
        is_overbought == FGt(rsi, rsi_overbought)
        ema_bearish == ~current_above(df) \/ tracked = "bearish"
    IN IF is_oversold /\ ema_bullish /\ position = None
       THEN StrategyResult("BUY",
                RMin(Num(100), RAdd(RMul(RSub(rsi, rsi_oversold), Num(3)), Num(50))),
                indicators)
       ELSE IF is_overbought /\ ema_bearish /\ position # None
       THEN StrategyResult("SELL",
                RMin(Num(100), RAdd(RMul(RSub(rsi, rsi_overbought), Num(3)), Num(50))),
                indicators)
       ELSE IF position # None /\ bearish_crossover(df) /\ FGt(rsi, Num(50))
       THEN StrategyResult("SELL", Num(60), indicators)
       ELSE StrategyResult("HOLD", Num(50), indicators)

\* a buy only on the call that detects the bullish crossover
analyze_signal_cross_only(tracked, df, position) ==
    LET rsi == df.current.rsi
        indicators == [rsi |-> rsi, ema_fast |-> df.current.ema_fast,
                       ema_slow |-> df.current.ema_slow, close |-> df.current.close]
        is_oversold == FLt(rsi, rsi_oversold)
        ema_bullish == bullish_crossover(df)
        is_overbought == FGt(rsi, rsi_overbought)
        ema_bearish == ~current_above(df) \/ tracked = "bearish"
    IN IF is_oversold /\ ema_bullish /\ position = None
       THEN StrategyResult("BUY",
                RMin(Num(100), RAdd(RMul(RSub(rsi_oversold, rsi), Num(3)), Num(50))),
                indicators)
       ELSE IF is_overbought /\ ema_bearish /\ position # None
       THEN StrategyResult("SELL",
                RMin(Num(100), RAdd(RMul(RSub(rsi, rsi_overbought), Num(3)), Num(50))),
                indicators)
       ELSE IF position # None /\ bearish_crossover(df) /\ FGt(rsi, Num(50))
       THEN StrategyResult("SELL", Num(60), indicators)
       ELSE StrategyResult("HOLD", Num(50), indicators)

\* the risk-management sell tested before the overbought sell
analyze_signal_risk_first(tracked, df, position) ==
    LET rsi == df.current.rsi
        indicators == [rsi |-> rsi, ema_fast |-> df.current.ema_fast,
                       ema_slow |-> df.current.ema_slow, close |-> df.current.close]
        is_oversold == FLt(rsi, rsi_oversold)
        ema_bullish == current_above(df) \/ tracked = "bullish"
        is_overbought == FGt(rsi, rsi_overbought)
        ema_bearish == ~current_above(df) \/ tracked = "bearish"
    IN IF is_oversold /\ ema_bullish /\ position = None
       THEN StrategyResult("BUY",
                RMin(Num(100), RAdd(RMul(RSub(rsi_oversold, rsi), Num(3)), Num(50))),
                indicators)
       ELSE IF position # None /\ bearish_crossover(df) /\ FGt(rsi, Num(50))
       THEN StrategyResult("SELL", Num(60), indicators)
       ELSE IF is_overbought /\ ema_bearish /\ position # None
       THEN StrategyResult("SELL",
                RMin(Num(100), RAdd(RMul(RSub(rsi, rsi_overbought), Num(3)), Num(50))),
                indicators)
       ELSE StrategyResult("HOLD", Num(50), indicators)

\* rsi_ema_strategy.py 138-208: the signal, given the tracked crossover
analyze_signal(tracked, df, position) ==
    LET rsi == df.current.rsi
        indicators == [rsi |-> rsi, ema_fast |-> df.current.ema_fast,
                       ema_slow |-> df.current.ema_slow, close |-> df.current.close]
        is_oversold == FLt(rsi, rsi_oversold)
        ema_bullish == current_above(df) \/ tracked = "bullish"
        is_overbought == FGt(rsi, rsi_overbought)
        ema_bearish == ~current_above(df) \/ tracked = "bearish"
    IN IF is_oversold /\ ema_bullish /\ position = None
       THEN StrategyResult("BUY",
                RMin(Num(100), RAdd(RMul(RSub(rsi_oversold, rsi), Num(3)), Num(50))),
                indicators)
       ELSE IF is_overbought /\ ema_bearish /\ position # None
       THEN StrategyResult("SELL",
                RMin(Num(100), RAdd(RMul(RSub(rsi, rsi_overbought), Num(3)), Num(50))),
                indicators)
       ELSE IF position # None /\ bearish_crossover(df) /\ FGt(rsi, Num(50))
       THEN StrategyResult("SELL", Num(60), indicators)
       ELSE StrategyResult("HOLD", Num(50), indicators)

\* the signal decided on the memory as it was before this call
\* the crossover tracked before the input is looked at
analyze_tracks_first(self_last_crossover, df, position) ==
    LET tracked == track_crossover(self_last_crossover, df)
    IN IF analyze_precondition(df) # "none"
       THEN [last_crossover |-> tracked,
             result |-> StrategyResult("HOLD", Num(0), None)]
       ELSE [last_crossover |-> tracked,
             result |-> analyze_signal(tracked, df, position)]

analyze_stale_memory(self_last_crossover, df, position) ==
    IF analyze_precondition(df) # "none"
    THEN [last_crossover |-> self_last_crossover,
          result |-> StrategyResult("HOLD", Num(0), None)]
    ELSE [last_crossover |-> track_crossover(self_last_crossover, df),
          result |-> analyze_signal(self_last_crossover, df, position)]

\* rsi_ema_strategy.py 67-208
analyze(self_last_crossover, df, position) ==
    IF analyze_precondition(df) # "none"
    THEN [last_crossover |-> self_last_crossover,
          result |-> StrategyResult("HOLD", Num(0), None)]
    ELSE LET tracked == track_crossover(self_last_crossover, df)
         IN [last_crossover |-> tracked,
             result |-> analyze_signal(tracked, df, position)]

\* the trade went through
IsTradeSuccess(r) == "success" \in DOMAIN r /\ r.success = TRUE

\* rsi_ema_strategy.py 210-215: prints a line for a successful trade; the
\* memory is not touched
on_trade_executed(self_last_crossover, trade_result) ==
    IF "success" \in DOMAIN trade_result /\ trade_result.success = TRUE
    THEN self_last_crossover
    ELSE self_last_crossover

\* a reset that leaves the memory as it was
reset_keeps(self_last_crossover) == self_last_crossover

\* rsi_ema_strategy.py 217-219
reset(self_last_crossover) == "none"

(***************************************************************************)
(* The state machine: one action per call on the account or the executor.  *)
(***************************************************************************)
\* PaperAccount.__init__ on a fresh store
Init ==
    /\ \E arg \in StartingBalanceArgs :
          starting_balance = IF arg = None THEN Num(STARTING_BALANCE_USDT) ELSE arg
    /\ db = initialize_account(EmptyDatabase, starting_balance)
    /\ lastOp = "init"
    /\ lastResult = None
    /\ pc = [c \in Callers |-> "idle"]
    /\ frame = [c \in Callers |-> None]
    /\ started = 0
    /\ last_crossover = "none"
    /\ analyzed = None
    /\ seq = NoSeries

\* amounts a caller may ask to sell: fixed ones and ones read off the position
SellAmounts(symbol) ==
    IF symbol # "BTC/USD" THEN {}
    ELSE {Zero, FixedSellAmount} \cup
         (IF get_position(db, symbol) = None THEN {}
          ELSE {get_position(db, symbol).amount,
                RDiv(get_position(db, symbol).amount, Num(2))})

\* MarketTracker.fetch_and_cache stores a newer candle: the latest close changes
FetchAndCache(symbol, close) ==
    /\ db' = save_ohlcv(db, symbol, close)
    /\ lastOp' = "fetch_and_cache"
    /\ lastResult' = None
    /\ UNCHANGED <<starting_balance, callerVars, strategyVars>>

MarketBuy(symbol, amount_usdt) ==
    /\ LET r == market_buy(db, symbol, amount_usdt)
       IN /\ r.result.success => Len(db.trades) < MaxTrades
          /\ db' = r.db
          /\ lastResult' = r.result
    /\ lastOp' = "market_buy"
    /\ UNCHANGED <<starting_balance, callerVars, strategyVars>>

MarketSell(symbol, amount_crypto) ==
    /\ LET r == market_sell(db, symbol, amount_crypto)
       IN /\ r.result.success => Len(db.trades) < MaxTrades
          /\ db' = r.db
          /\ lastResult' = r.result
    /\ lastOp' = "market_sell"
    /\ UNCHANGED <<starting_balance, callerVars, strategyVars>>

SellAll(symbol) ==
    /\ LET r == sell_all(db, symbol)
       IN /\ r.result.success => Len(db.trades) < MaxTrades
          /\ db' = r.db
          /\ lastResult' = r.result
    /\ lastOp' = "sell_all"
    /\ UNCHANGED <<starting_balance, callerVars, strategyVars>>

RecordEquitySnapshot ==
    /\ Len(db.equity_history) < MaxSnapshots
    /\ LET r == record_equity_snapshot(db)
       IN /\ db' = r.db
          /\ lastResult' = r.result
    /\ lastOp' = "record_equity_snapshot"
    /\ UNCHANGED <<starting_balance, callerVars, strategyVars>>

ResetAccount ==
    /\ db' = reset_account(db, starting_balance)
    /\ lastOp' = "reset_account"
    /\ UNCHANGED lastResult
    /\ UNCHANGED <<starting_balance, callerVars, strategyVars>>

\* a caller of the account sets a position directly
UpdatePosition(symbol, amount, avg_entry_price) ==
    /\ db' = update_position(db, symbol, amount, avg_entry_price)
    /\ lastOp' = "update_position"
    /\ lastResult' = None
    /\ UNCHANGED <<starting_balance, callerVars, strategyVars>>

\* a caller of the account sets the cash balance directly
UpdateCashBalance(new_balance) ==
    /\ db' = update_cash_balance(db, new_balance)
    /\ lastOp' = "update_cash_balance"
    /\ lastResult' = None
    /\ UNCHANGED <<starting_balance, callerVars, strategyVars>>

Next ==
    \/ \E s \in TRADING_PAIRS : \E p \in Closes(s) : FetchAndCache(s, p)
    \/ \E s \in TRADING_PAIRS : \E q \in QuoteAmounts(s) : MarketBuy(s, q)
    \/ \E s \in TRADING_PAIRS : \E a \in SellAmounts(s) : MarketSell(s, a)
    \/ \E s \in TRADING_PAIRS : SellAll(s)
    \/ ResetAccount

Spec == Init /\ [][Next]_vars

\* the executor's calls together with direct calls on the account
PositionAmounts == {Zero, Rat(1, 50)}

PositionPrices == {Num(45000)}

CashBalances == {Num(5000)}

NextLedger ==
    \/ \E s \in TRADING_PAIRS : \E p \in Closes(s) : FetchAndCache(s, p)
    \/ \E q \in {Zero, Num(1000)} : MarketBuy("BTC/USD", q)
    \/ \E a \in SellAmounts("BTC/USD") : MarketSell("BTC/USD", a)
    \/ \E s \in TRADING_PAIRS : SellAll(s)
    \/ \E a \in PositionAmounts, p \in PositionPrices :
          UpdatePosition("ETH/USD", a, p)
    \/ \E b \in CashBalances : UpdateCashBalance(b)
    \/ ResetAccount

SpecLedger == Init /\ [][NextLedger]_vars

\* the executor on one symbol together with the equity snapshots
NextHistory ==
    \/ \E p \in Closes("BTC/USD") : FetchAndCache("BTC/USD", p)
    \/ \E q \in {Zero, Num(1000)} : MarketBuy("BTC/USD", q)
    \/ \E a \in SellAmounts("BTC/USD") : MarketSell("BTC/USD", a)
    \/ SellAll("BTC/USD")
    \/ RecordEquitySnapshot
    \/ ResetAccount

SpecHistory == Init /\ [][NextHistory]_vars

\* database.reset_database called on its own, as test_trading.py does before
\* it initializes the account again
ResetDatabase ==
    /\ db' = reset_database(db)
    /\ lastOp' = "reset_database"
    /\ lastResult' = None
    /\ UNCHANGED <<starting_balance, callerVars, strategyVars>>

InitializeAccount ==
    /\ db' = initialize_account(db, starting_balance)
    /\ lastOp' = "initialize_account"
    /\ lastResult' = None
    /\ UNCHANGED <<starting_balance, callerVars, strategyVars>>

GetCashBalance ==
    /\ lastResult' = get_cash_balance(db)
    /\ lastOp' = "get_cash_balance"
    /\ UNCHANGED <<db, starting_balance, callerVars, strategyVars>>

GetAccountInfo ==
    /\ LET r == get_account_info(db, starting_balance)
       IN /\ db' = r.db
          /\ lastResult' = r.result
    /\ lastOp' = "get_account_info"
    /\ UNCHANGED <<starting_balance, callerVars, strategyVars>>

\* the account read while the store is cleared and initialized around it
NextStore ==
    \/ \E p \in Closes("BTC/USD") : FetchAndCache("BTC/USD", p)
    \/ MarketBuy("BTC/USD", Num(1000))
    \/ SellAll("BTC/USD")
    \/ ResetDatabase
    \/ InitializeAccount
    \/ GetCashBalance
    \/ GetAccountInfo

SpecStore == Init /\ [][NextStore]_vars

\* direct calls on the account alone, with position sizes on both sides of
\* Epsilon and with candles whose close is 0 (save_ohlcv stores any number)
SmallPositionAmounts == {Zero, Rat(1, 2000000), Rat(1, 1000000), Rat(1, 50)}

NextPositions ==
    \/ \E s \in TRADING_PAIRS : \E p \in Closes(s) \cup {Zero} : FetchAndCache(s, p)
    \/ \E s \in TRADING_PAIRS : \E a \in SmallPositionAmounts, p \in PositionPrices :
          UpdatePosition(s, a, p)
    \/ \E b \in CashBalances : UpdateCashBalance(b)
    \/ ResetAccount

SpecPositions == Init /\ [][NextPositions]_vars

\* the executor on one symbol, at one close, with amounts near the closing
\* threshold of market_sell: a quote amount that buys Epsilon / 2, and sells
\* that leave Epsilon / 2, Epsilon or 2 x Epsilon of the position
DustClose == Num(50000)

DustQuoteAmounts == {Rat(1, 40), Num(1000), Num(2000)}

DustSellAmounts ==
    IF get_position(db, "BTC/USD") = None THEN {}
    ELSE LET held == get_position(db, "BTC/USD").amount
         IN {b \in {RSub(held, RDiv(Epsilon, Num(2))),
                    RSub(held, Epsilon),
                    RSub(held, RMul(Num(2), Epsilon))} : RGt(b, Zero)}

NextDust ==
    \/ FetchAndCache("BTC/USD", DustClose)
    \/ \E q \in DustQuoteAmounts : MarketBuy("BTC/USD", q)
    \/ \E a \in DustSellAmounts : MarketSell("BTC/USD", a)
    \/ SellAll("BTC/USD")
    \/ ResetAccount

SpecDust == Init /\ [][NextDust]_vars

\* the strategy alone: analyze called on frames of every shape
RsiValues == {Num(10), Num(13), Num(20), Num(30), Num(50), Num(70), Num(80),
              Num(90), NaN}

EmaPairs == {<<Num(1), Num(2)>>, <<Num(2), Num(2)>>, <<Num(3), Num(2)>>,
             <<NaN, Num(2)>>, <<Num(2), NaN>>}

ShortOrNarrowFrames ==
    {[len |-> n, columns |-> cols,
      current |-> [close |-> Num(100), rsi |-> Num(20),
                   ema_fast |-> Num(3), ema_slow |-> Num(2)],
      previous |-> [ema_fast |-> Num(1), ema_slow |-> Num(2)]] :
        n \in {2, 3}, cols \in {required, required \ {"rsi"}, required \ {"close"}}}

Frames ==
    {[len |-> 3, columns |-> required,
      current |-> [close |-> Num(100), rsi |-> r, ema_fast |-> e[1], ema_slow |-> e[2]],
      previous |-> [ema_fast |-> pe[1], ema_slow |-> pe[2]]] :
        r \in RsiValues, e \in EmaPairs, pe \in EmaPairs}
    \cup ShortOrNarrowFrames
    \cup {[len |-> 3, columns |-> required,
           current |-> [close |-> NaN, rsi |-> Num(20),
                        ema_fast |-> Num(3), ema_slow |-> Num(2)],
           previous |-> [ema_fast |-> Num(1), ema_slow |-> Num(2)]]}

PositionArgs == {None, [amount |-> Rat(1, 50), avg_entry_price |-> Num(50000)]}

Analyze(df, position) ==
    /\ LET r == analyze(last_crossover, df, position)
       IN /\ last_crossover' = r.last_crossover
          /\ lastResult' = r.result
    /\ analyzed' = [df |-> df, position |-> position]
    /\ lastOp' = "analyze"
    /\ UNCHANGED <<db, starting_balance, callerVars, seq>>

\* the results main.py 148 and 160 pass on, a rejection, and a result without
\* the success key
TradeResults ==
    {[success |-> TRUE, side |-> "BUY", symbol |-> "BTC/USD"],
     [success |-> TRUE, side |-> "SELL", symbol |-> "BTC/USD"],
     [success |-> FALSE, error |-> "Insufficient balance"],
     [error |-> "No price data"]}

OnTradeExecuted(trade_result) ==
    /\ last_crossover' = on_trade_executed(last_crossover, trade_result)
    /\ lastOp' = "on_trade_executed"
    /\ lastResult' = None
    /\ UNCHANGED <<db, starting_balance, callerVars, analyzed, seq>>

Reset ==
    /\ last_crossover' = reset(last_crossover)
    /\ lastOp' = "reset"
    /\ lastResult' = None
    /\ UNCHANGED <<db, starting_balance, callerVars, analyzed, seq>>

NextStrategy ==
    \/ \E df \in Frames, position \in PositionArgs : Analyze(df, position)
    \/ \E trade_result \in TradeResults : OnTradeExecuted(trade_result)
    \/ Reset

SpecStrategy == Init /\ [][NextStrategy]_vars

(***************************************************************************)
(* main.py: PaperTradingBot.  The bot trades one symbol with a fixed quote *)
(* amount.  The indicator values of an iteration are a function of the     *)
(* cached candles (indicators.py), of which the store here keeps the       *)
(* latest close only: they are inputs of the iteration, rsi and both       *)
(* averages always numbers (indicators.py 64 and 87).                      *)
(***************************************************************************)
DEFAULT_SYMBOL == "BTC/USD"

trade_amount == Num(500)

\* main.py 101-123 with market_tracker.py 102-118 and 192-223: a fetch that
\* brings a candle stores it; an empty cache is fetched once more; no
\* candle at all gives no frame
fetch_and_analyze(d, fetched, refetched, ind) ==
    LET d1 == IF fetched # None THEN save_ohlcv(d, DEFAULT_SYMBOL, fetched) ELSE d
        d2 == IF get_latest_price(d1, DEFAULT_SYMBOL) = None /\ refetched # None
              THEN save_ohlcv(d1, DEFAULT_SYMBOL, refetched)
              ELSE d1
        close == get_latest_price(d2, DEFAULT_SYMBOL)
    IN [db |-> d2,
        df |-> IF close = None THEN None
               ELSE [len |-> 100, columns |-> required,
                     current |-> [close |-> close, rsi |-> ind.rsi,
                                  ema_fast |-> ind.ema[1], ema_slow |-> ind.ema[2]],
                     previous |-> [ema_fast |-> ind.prev[1], ema_slow |-> ind.prev[2]]]]

\* main.py 126-166
execute_signal(d, signal) ==
    LET position == get_position(d, DEFAULT_SYMBOL)
    IN IF signal = "HOLD" THEN [db |-> d, result |-> None]
       ELSE IF signal = "BUY"
       THEN IF position = None
            THEN market_buy(d, DEFAULT_SYMBOL, trade_amount)
            ELSE [db |-> d, result |-> None]
       ELSE IF signal = "SELL"
       THEN IF position # None
            THEN sell_all(d, DEFAULT_SYMBOL)
            ELSE [db |-> d, result |-> None]
       ELSE [db |-> d, result |-> None]

\* main.py 168-208: the store, the crossover memory, the trade result and
\* the analyze arguments after one iteration
run_iteration(d, self_last_crossover, fetched, refetched, ind) ==
    LET data == fetch_and_analyze(d, fetched, refetched, ind)
    IN IF data.df = None
       THEN [db |-> data.db, last_crossover |-> self_last_crossover,
             result |-> None, analyzed |-> None]
       ELSE LET position == get_position(data.db, DEFAULT_SYMBOL)
                a == analyze(self_last_crossover, data.df, position)
                e == execute_signal(data.db, a.result.signal)
                memory == IF e.result # None /\ IsTradeSuccess(e.result)
                          THEN on_trade_executed(a.last_crossover, e.result)
                          ELSE a.last_crossover
            IN [db |-> record_equity_snapshot(e.db).db,
                last_crossover |-> memory,
                result |-> e.result,
                analyzed |-> [df |-> data.df, position |-> position]]

BotRsi == {Num(20), Num(50), Num(60), Num(80)}

BotEma == {<<Num(1), Num(2)>>, <<Num(3), Num(2)>>}

BotIndicators == [rsi : BotRsi, ema : BotEma, prev : BotEma]

RunIteration(fetched, refetched, ind) ==
    /\ \E r \in {run_iteration(db, last_crossover, fetched, refetched, ind)} :
          /\ Len(r.db.trades) <= MaxTrades
          /\ Len(r.db.equity_history) <= MaxSnapshots
          /\ db' = r.db
          /\ last_crossover' = r.last_crossover
          /\ lastResult' = r.result
          /\ analyzed' = r.analyzed
    /\ lastOp' = "run_iteration"
    /\ UNCHANGED <<starting_balance, callerVars, seq>>

NextBot ==
    \/ \E fetched \in Closes(DEFAULT_SYMBOL), ind \in BotIndicators :
           RunIteration(fetched, None, ind)
    \/ \E refetched \in Closes(DEFAULT_SYMBOL) \cup {None}, ind \in BotIndicators :
           RunIteration(None, refetched, ind)

SpecBot == Init /\ [][NextBot]_vars

\* the executor and the account reset next to a strategy instance that has
\* seen crossovers
CrossoverFrames ==
    {[len |-> 100, columns |-> required,
      current |-> [close |-> Num(100), rsi |-> Num(50),
                   ema_fast |-> e[1], ema_slow |-> e[2]],
      previous |-> [ema_fast |-> e[2], ema_slow |-> e[1]]] :
        e \in {<<Num(1), Num(2)>>, <<Num(2), Num(1)>>}}

NextReset ==
    \/ \E s \in TRADING_PAIRS : \E p \in Closes(s) : FetchAndCache(s, p)
    \/ \E s \in TRADING_PAIRS : \E q \in {Zero, Num(1000)} : MarketBuy(s, q)
    \/ \E a \in SellAmounts("BTC/USD") : MarketSell("BTC/USD", a)
    \/ MarketSell("ETH/USD", Rat(1, 2))
    \/ SellAll("BTC/USD")
    \/ \E df \in CrossoverFrames : Analyze(df, None)
    \/ ResetAccount

SpecReset == Init /\ [][NextReset]_vars

(***************************************************************************)
(* A series of analyze calls on one strategy instance, each with position  *)
(* None.  Every call sees one more candle than the call before (the frame  *)
(* of main.py 176-179), so the previous row of a frame is the current row  *)
(* of the frame before.  The closes fall by one, then rise by one.  seq    *)
(* remembers what the series has shown so far.                             *)
(***************************************************************************)
SeriesRsi == {Num(20), Num(50)}

SeriesEma == {<<Num(1), Num(2)>>, <<Num(2), Num(2)>>, <<Num(3), Num(2)>>}

SeriesStart == Num(100)

SeriesFrame(close, r, e, pe) ==
    [len |-> 100, columns |-> required,
     current |-> [close |-> close, rsi |-> r, ema_fast |-> e[1], ema_slow |-> e[2]],
     previous |-> [ema_fast |-> pe[1], ema_slow |-> pe[2]]]

AnalyzeSeries(df, rises) ==
    /\ seq.calls < MaxSeries
    /\ LET r == analyze(last_crossover, df, None)
       IN /\ last_crossover' = r.last_crossover
          /\ lastResult' = r.result
          /\ seq' = [calls |-> seq.calls + 1,
                     buys |-> seq.buys + (IF r.result.signal = "BUY" THEN 1 ELSE 0),
                     oversold_bullish |->
                         seq.oversold_bullish
                           + (IF /\ RLt(df.current.rsi, Num(30))
                                 /\ \/ RGt(df.current.ema_fast, df.current.ema_slow)
                                    \/ r.last_crossover = "bullish"
                              THEN 1 ELSE 0),
                     fell |-> seq.fell \/ (seq.calls > 0 /\ ~rises),
                     rose |-> rises,
                     dipped |-> seq.dipped \/ RLt(df.current.rsi, Num(30)),
                     crossed |-> seq.crossed
                                   \/ /\ seq.calls > 0
                                      /\ RLe(df.previous.ema_fast, df.previous.ema_slow)
                                      /\ RGt(df.current.ema_fast, df.current.ema_slow),
                     last |-> df.current]
    /\ analyzed' = [df |-> df, position |-> None]
    /\ lastOp' = "analyze"
    /\ UNCHANGED <<db, starting_balance, callerVars>>

NextSeries ==
    \/ /\ seq.calls = 0
       /\ \E r \in SeriesRsi, e \in SeriesEma :
              AnalyzeSeries(SeriesFrame(SeriesStart, r, e, e), FALSE)
    \/ /\ seq.calls > 0
       /\ ~seq.rose
       /\ \E r \in SeriesRsi, e \in SeriesEma :
              AnalyzeSeries(SeriesFrame(RSub(seq.last.close, Num(1)), r, e,
                                        <<seq.last.ema_fast, seq.last.ema_slow>>),
                            FALSE)
    \/ /\ seq.fell
       /\ \E r \in SeriesRsi, e \in SeriesEma :
              AnalyzeSeries(SeriesFrame(RAdd(seq.last.close, Num(1)), r, e,
                                        <<seq.last.ema_fast, seq.last.ema_slow>>),
                            TRUE)

SpecSeries == Init /\ [][NextSeries]_vars

(***************************************************************************)
(* market_buy taken one store call at a time.  Every function of           *)
(* database.py opens its own connection and commits before it returns, so  *)
(* the store is visible to other callers, and survives a failure, between  *)
(* any two of these steps.                                                 *)
(***************************************************************************)
InitSteps ==
    /\ starting_balance = Num(STARTING_BALANCE_USDT)
    /\ \E btc \in Closes("BTC/USD") \cup {None}, eth \in Closes("ETH/USD") \cup {None} :
          db = [initialize_account(EmptyDatabase, starting_balance)
                    EXCEPT !.ohlcv = [s \in TRADING_PAIRS |->
                                         IF s = "BTC/USD" THEN btc ELSE eth]]
    /\ lastOp = "init"
    /\ lastResult = None
    /\ pc = [c \in Callers |-> "idle"]
    /\ frame = [c \in Callers |-> None]
    /\ started = 0
    /\ last_crossover = "none"
    /\ analyzed = None
    /\ seq = NoSeries

Return(c, result) ==
    /\ pc' = [pc EXCEPT ![c] = "idle"]
    /\ frame' = [frame EXCEPT ![c] = None]
    /\ lastResult' = result
    /\ lastOp' = "market_buy"

Goto(c, label, newFrame) ==
    /\ pc' = [pc EXCEPT ![c] = label]
    /\ frame' = [frame EXCEPT ![c] = newFrame]
    /\ UNCHANGED <<lastOp, lastResult>>

\* executor.py 89-98: entry and the amount check
BuyBegin(c, symbol, amount_usdt) ==
    /\ pc[c] = "idle"
    /\ started < MaxCalls
    /\ started' = started + 1
    /\ IF RLe(amount_usdt, Zero)
       THEN Return(c, Failure("InvalidAmount", symbol, "buy"))
       ELSE Goto(c, "get_price", [symbol |-> symbol, amount_usdt |-> amount_usdt])
    /\ UNCHANGED <<db, starting_balance, strategyVars>>

\* executor.py 100-112
BuyGetPrice(c) ==
    /\ pc[c] = "get_price"
    /\ LET price == get_latest_price(db, frame[c].symbol)
           fee == calculate_fee(frame[c].amount_usdt)
       IN IF price = None
          THEN Return(c, Failure("NoPriceData", frame[c].symbol, "buy"))
          ELSE Goto(c, "can_afford",
                    [symbol |-> frame[c].symbol, amount_usdt |-> frame[c].amount_usdt,
                     price |-> price, fee |-> fee,
                     total_cost |-> RAdd(frame[c].amount_usdt, fee)])
    /\ UNCHANGED <<db, starting_balance, started, strategyVars>>

\* executor.py 114-125
BuyCanAfford(c) ==
    /\ pc[c] = "can_afford"
    /\ IF ~can_afford(db, frame[c].amount_usdt)
       THEN Return(c, Failure("InsufficientBalance", frame[c].symbol, "buy"))
       ELSE Goto(c, "get_position",
                 [symbol |-> frame[c].symbol, amount_usdt |-> frame[c].amount_usdt,
                  price |-> frame[c].price, fee |-> frame[c].fee,
                  total_cost |-> frame[c].total_cost,
                  crypto_amount |-> RDiv(frame[c].amount_usdt, frame[c].price)])
    /\ UNCHANGED <<db, starting_balance, started, strategyVars>>

\* executor.py 127-142 up to the store write of account.py 187
BuyWritePosition(c) ==
    /\ pc[c] = "get_position"
    /\ LET f == frame[c]
           existing_position == get_position(db, f.symbol)
           old_amount == existing_position.amount
           old_avg_price == existing_position.avg_entry_price
           old_cost == RMul(old_amount, old_avg_price)
           new_amount == RAdd(old_amount, f.crypto_amount)
           new_avg_price == RDiv(RAdd(old_cost, f.amount_usdt), new_amount)
       IN db' = IF existing_position # None
                THEN database_update_position(db, f.symbol, new_amount, new_avg_price)
                ELSE database_update_position(db, f.symbol, f.crypto_amount, f.price)
    /\ Goto(c, "position_equity", frame[c])
    /\ UNCHANGED <<starting_balance, started, strategyVars>>

\* account.py 190-192, the rest of update_position
BuyPositionEquity(c) ==
    /\ pc[c] = "position_equity"
    /\ LET cash == get_cash_balance(db)
           total_equity == calculate_total_equity(db, cash)
       IN db' = update_account(db, cash, total_equity)
    /\ Goto(c, "read_cash", frame[c])
    /\ UNCHANGED <<starting_balance, started, strategyVars>>

\* executor.py 145 and account.py 147: the reads of update_cash_balance
BuyReadCash(c) ==
    /\ pc[c] = "read_cash"
    /\ LET new_cash == RSub(get_cash_balance(db), frame[c].total_cost)
       IN Goto(c, "write_cash",
               [symbol |-> frame[c].symbol, amount_usdt |-> frame[c].amount_usdt,
                price |-> frame[c].price, fee |-> frame[c].fee,
                total_cost |-> frame[c].total_cost,
                crypto_amount |-> frame[c].crypto_amount,
                new_cash |-> new_cash,
                total_equity |-> calculate_total_equity(db, new_cash)])
    /\ UNCHANGED <<db, starting_balance, started, strategyVars>>

\* the deduction applied to the balance found at the time of the write
BuyWriteCash_on_current_balance(c) ==
    /\ pc[c] = "write_cash"
    /\ LET new_cash == RSub(get_cash_balance(db), frame[c].total_cost)
       IN db' = update_account(db, new_cash, calculate_total_equity(db, new_cash))
    /\ Goto(c, "log_trade", frame[c])
    /\ UNCHANGED <<starting_balance, started, strategyVars>>

\* account.py 148: the write of update_cash_balance
BuyWriteCash(c) ==
    /\ pc[c] = "write_cash"
    /\ db' = update_account(db, frame[c].new_cash, frame[c].total_equity)
    /\ Goto(c, "log_trade", frame[c])
    /\ UNCHANGED <<starting_balance, started, strategyVars>>

\* executor.py 148-174
BuyLogTrade(c) ==
    /\ pc[c] = "log_trade"
    /\ LET f == frame[c]
       IN /\ db' = log_trade(db, f.symbol, "buy", f.crypto_amount, f.price, f.fee, Zero)
          /\ Return(c, [success |-> TRUE, symbol |-> f.symbol, side |-> "buy",
                        amount |-> f.crypto_amount, price |-> f.price,
                        cost |-> f.amount_usdt, fee |-> f.fee,
                        total_cost |-> f.total_cost])
    /\ UNCHANGED <<starting_balance, started, strategyVars>>

\* a store call raises (sqlite3 error): the exception leaves market_buy
StorageFailure(c) ==
    /\ pc[c] \notin {"idle"}
    /\ pc' = [pc EXCEPT ![c] = "idle"]
    /\ frame' = [frame EXCEPT ![c] = None]
    /\ lastResult' = [raised |-> "StorageUnavailable"]
    /\ lastOp' = "market_buy"
    /\ UNCHANGED <<db, starting_balance, started, strategyVars>>

NextSteps ==
    \/ \E c \in Callers, s \in TRADING_PAIRS : \E q \in QuoteAmounts(s) : BuyBegin(c, s, q)
    \/ \E c \in Callers : BuyGetPrice(c)
    \/ \E c \in Callers : BuyCanAfford(c)
    \/ \E c \in Callers : BuyWritePosition(c)
    \/ \E c \in Callers : BuyPositionEquity(c)
    \/ \E c \in Callers : BuyReadCash(c)
    \/ \E c \in Callers : BuyWriteCash(c)
    \/ \E c \in Callers : BuyLogTrade(c)
    \/ \E c \in Callers : StorageFailure(c)

SpecSteps == InitSteps /\ [][NextSteps]_vars

(***************************************************************************)
(* Properties.                                                             *)
(***************************************************************************)
ExecutorOps == {"market_buy", "market_sell", "sell_all"}

SellOps == {"market_sell", "sell_all"}

ErrorKinds == {"InvalidAmount", "NoPriceData", "InsufficientBalance",
               "NoPosition", "InsufficientPosition"}

IsFailure(r) == "error" \in DOMAIN r

IsSuccess(r) == "success" \in DOMAIN r /\ r.success

Ledger(d) == <<d.account, d.positions, d.trades, d.equity_history>>

OpenSymbols(d) == {s \in TRADING_PAIRS : d.positions[s] # None}

RECURSIVE SumOver(_, _)
SumOver(f, S) ==
    IF S = {} THEN Zero
    ELSE LET x == CHOOSE y \in S : TRUE IN RAdd(f[x], SumOver(f, S \ {x}))

RECURSIVE SumSeq(_)
SumSeq(q) == IF q = <<>> THEN Zero ELSE RAdd(Head(q), SumSeq(Tail(q)))

\* C1: a rejected market_buy, market_sell or sell_all returns a failure
\* result of one of the five kinds and leaves cash, equity, every position,
\* the trade log and the equity history as they were.
C1_RejectedLeavesLedgerUnchanged ==
    [][(lastOp' \in ExecutorOps /\ ~IsSuccess(lastResult'))
          => /\ IsFailure(lastResult')
             /\ lastResult'.success = FALSE
             /\ lastResult'.error \in ErrorKinds
             /\ Ledger(db') = Ledger(db)]_vars

C1_Witness ==
    /\ lastOp = "market_buy"
    /\ IsFailure(lastResult)
    /\ lastResult.error = "InsufficientBalance"
    /\ db.trades # <<>>
    /\ OpenSymbols(db) # {}

\* C2: after any sequence of market_buy, market_sell and sell_all calls the
\* cash balance is not negative.
C2_CashNeverNegative == RGe(get_cash_balance(db), Zero)

C2_Witness ==
    /\ lastOp = "market_buy"
    /\ IsSuccess(lastResult)
    /\ get_cash_balance(db) = Zero

\* C3: right after update_position, update_cash_balance or a successful
\* market_buy, market_sell or sell_all, the stored total_equity is the cash
\* balance plus amount x latest oracle price over the open positions (stated
\* for the states in which the oracle has a price for every open position).
MutationDone ==
    \/ lastOp \in {"update_position", "update_cash_balance"}
    \/ lastOp \in ExecutorOps /\ IsSuccess(lastResult)

AllMarked(d) == \A s \in OpenSymbols(d) : d.ohlcv[s] # None

MarkedValue(d) ==
    SumOver([s \in TRADING_PAIRS |-> RMul(d.positions[s].amount, d.ohlcv[s])],
            OpenSymbols(d))

CostBasis(d) ==
    SumOver([s \in TRADING_PAIRS |->
                RMul(d.positions[s].amount, d.positions[s].avg_entry_price)],
            OpenSymbols(d))

C4_LedgerOperationsAtomic ==
    /\ db.account.total_equity = RAdd(db.account.cash_balance, MarkedValue(db))
    /\ db.account.cash_balance =
          RSub(starting_balance,
               RMul(CostBasis(db), RAdd(Num(1), fee_percent)))

\* C5: after buys only on a symbol, avg_entry_price is the total quote
\* amount spent divided by the total base amount bought (the entry prices
\* averaged with the base amounts as weights), and buying q1 then q2 at one
\* price leaves the same position as buying q1 + q2 at that price.
TradesOf(d, symbol) == SelectSeq(d.trades, LAMBDA t : t.symbol = symbol)

BoughtOnly(d, symbol) ==
    /\ d.positions[symbol] # None
    /\ \A i \in 1..Len(TradesOf(d, symbol)) : TradesOf(d, symbol)[i].side = "buy"

QuoteOf(t) == RMul(t.amount, t.price)

SumQuote(q) == SumSeq([i \in 1..Len(q) |-> QuoteOf(q[i])])

SumBase(q) == SumSeq([i \in 1..Len(q) |-> q[i].amount])

SumQuoteTimesPrice(q) == SumSeq([i \in 1..Len(q) |-> RMul(QuoteOf(q[i]), q[i].price)])

SplitIndependent(d, symbol) ==
    \A q1, q2 \in {Num(1000), Num(2000)} :
        get_latest_price(d, symbol) # None =>
            get_position(market_buy_position(market_buy_position(d, symbol, q1),
                                             symbol, q2), symbol)
              = get_position(market_buy_position(d, symbol, RAdd(q1, q2)), symbol)

C5_AvgEntryIsCostOverAmount ==
    \A s \in TRADING_PAIRS :
        /\ BoughtOnly(db, s) =>
              db.positions[s].avg_entry_price
                = RDiv(SumQuote(TradesOf(db, s)), SumBase(TradesOf(db, s)))
        /\ SplitIndependent(db, s)

\* C5 as claimed: the entry prices averaged with the quote amounts as weights
C5_AvgEntryIsQuoteWeighted ==
    \A s \in TRADING_PAIRS :
        /\ BoughtOnly(db, s) =>
              db.positions[s].avg_entry_price
                = RDiv(SumQuoteTimesPrice(TradesOf(db, s)), SumQuote(TradesOf(db, s)))
        /\ SplitIndependent(db, s)

C5_Witness ==
    \E s \in TRADING_PAIRS :
        /\ BoughtOnly(db, s)
        /\ Len(TradesOf(db, s)) = 2
        /\ TradesOf(db, s)[1].price # TradesOf(db, s)[2].price
        /\ lastOp = "market_buy"
        /\ IsSuccess(lastResult)

\* C6: a successful market_sell or sell_all of exactly the held amount
\* leaves no position for the symbol.
C6_FullSellRemovesPosition ==
    [][\A s \in TRADING_PAIRS :
          (/\ lastOp' \in SellOps
           /\ IsSuccess(lastResult')
           /\ lastResult'.symbol = s
           /\ db.positions[s] # None
           /\ lastResult'.amount = db.positions[s].amount)
          => get_position(db', s) = None]_vars

C6_Witness ==
    /\ lastOp = "market_sell"
    /\ IsSuccess(lastResult)
    /\ Len(db.trades) = 2
    /\ db.trades[1].side = "buy"
    /\ db.trades[2].side = "sell"
    /\ db.trades[1].symbol = db.trades[2].symbol
    /\ db.trades[1].amount = db.trades[2].amount
    /\ get_position(db, lastResult.symbol) = None

\* C7: from cash 10,000 at fee 0.1% and price 50,000, a buy of 1,000 has fee
\* 1, base amount 0.02 and leaves cash 8,999; selling 0.02 at 50,000 right
\* after has gross 1,000, fee 1, net 999, pnl -1, leaves cash 9,998 and no
\* position.
C7_FirstBuy(t) ==
    /\ t.side = "buy"
    /\ t.price = Num(50000)
    /\ QuoteOf(t) = Num(1000)

C7_ConcreteRoundTrip ==
    /\ (/\ starting_balance = Num(10000)
        /\ lastOp = "market_buy"
        /\ IsSuccess(lastResult)
        /\ Len(db.trades) = 1
        /\ lastResult.cost = Num(1000)
        /\ lastResult.price = Num(50000))
       => /\ lastResult.fee = Num(1)
          /\ lastResult.amount = Rat(2, 100)
          /\ get_cash_balance(db) = Num(8999)
    /\ (/\ starting_balance = Num(10000)
        /\ lastOp \in SellOps
        /\ IsSuccess(lastResult)
        /\ Len(db.trades) = 2
        /\ C7_FirstBuy(db.trades[1])
        /\ db.trades[1].symbol = lastResult.symbol
        /\ lastResult.amount = Rat(2, 100)
        /\ lastResult.price = Num(50000))
       => /\ lastResult.gross_proceeds = Num(1000)
          /\ lastResult.fee = Num(1)
          /\ lastResult.net_proceeds = Num(999)
          /\ lastResult.pnl = Num(0 - 1)
          /\ get_cash_balance(db) = Num(9998)
          /\ get_position(db, lastResult.symbol) = None

C7_Witness ==
    /\ starting_balance = Num(10000)
    /\ lastOp = "market_sell"
    /\ IsSuccess(lastResult)
    /\ Len(db.trades) = 2
    /\ C7_FirstBuy(db.trades[1])
    /\ db.trades[1].symbol = lastResult.symbol
    /\ lastResult.amount = Rat(2, 100)
    /\ lastResult.price = Num(50000)
    /\ get_cash_balance(db) = Num(9998)

\* C8: after market_buy of X and, right after it, a market_sell of the whole
\* base amount bought at the same price, net_proceeds = X - sell_fee: the buy
\* fee is not taken from the proceeds (it was paid from cash at the buy, so a
\* round trip that starts at the starting balance ends with cash lower by
\* buy_fee + sell_fee).
RoundTripDone ==
    /\ lastOp \in SellOps
    /\ IsSuccess(lastResult)
    /\ Len(db.trades) >= 2
    /\ LET buy == db.trades[Len(db.trades) - 1]
           sell == db.trades[Len(db.trades)]
       IN /\ buy.side = "buy"
          /\ sell.side = "sell"
          /\ buy.symbol = sell.symbol
          /\ buy.amount = sell.amount
          /\ buy.price = sell.price

RoundTripBuy == db.trades[Len(db.trades) - 1]

RoundTripSell == db.trades[Len(db.trades)]

C8_RoundTripNetIsQuoteLessSellFee ==
    RoundTripDone =>
        /\ lastResult.net_proceeds = RSub(QuoteOf(RoundTripBuy), RoundTripSell.fee)
        /\ Len(db.trades) = 2 =>
              get_cash_balance(db)
                = RSub(starting_balance, RAdd(RoundTripBuy.fee, RoundTripSell.fee))

\* C8 as claimed: net_proceeds = X - buy_fee - sell_fee
C8_RoundTripNetLessBothFees ==
    RoundTripDone =>
        lastResult.net_proceeds
          = RSub(RSub(QuoteOf(RoundTripBuy), RoundTripBuy.fee), RoundTripSell.fee)

C8_Witness ==
    /\ RoundTripDone
    /\ QuoteOf(RoundTripBuy) = Num(2000)
    /\ RoundTripSell.fee = Num(2)
    /\ lastResult.net_proceeds = Num(1998)

\* C9: can_afford(amount) holds exactly when amount x (1 + fee rate) is at
\* most the cash balance, and a market_buy whose total cost equals the cash
\* balance is accepted and leaves cash 0.
ProbeAmounts == {Num(0), Num(1000), Num(2000), Num(10000)}

C9_CanAffordBoundary ==
    /\ \A a \in ProbeAmounts :
          can_afford(db, a)
            <=> RLe(RMul(a, RAdd(Num(1), fee_percent)), get_cash_balance(db))
    /\ \A s \in TRADING_PAIRS : \A q \in QuoteAmounts(s) :
          (/\ RGt(q, Zero)
           /\ get_latest_price(db, s) # None
           /\ RMul(q, RAdd(Num(1), fee_percent)) = get_cash_balance(db))
          => /\ IsSuccess(market_buy(db, s, q).result)
             /\ get_cash_balance(market_buy(db, s, q).db) = Zero

C9_Witness ==
    /\ lastOp = "market_buy"
    /\ IsSuccess(lastResult)
    /\ Len(db.trades) = 1
    /\ lastResult.total_cost = starting_balance
    /\ get_cash_balance(db) = Zero

\* C10: reset_account leaves cash_balance = total_equity = starting_balance,
\* an empty trade log, no position and an empty equity history.
C10_ResetRestoresStart ==
    lastOp = "reset_account"
        => /\ db.account = [cash_balance |-> starting_balance,
                            total_equity |-> starting_balance]
           /\ db.trades = <<>>
           /\ OpenSymbols(db) = {}
           /\ db.equity_history = <<>>

\* the call before the reset was a snapshot of an equity that trades had moved
C10_Witness ==
    /\ lastOp = "reset_account"
    /\ "n" \in DOMAIN lastResult
    /\ lastResult # starting_balance
    /\ db.account.cash_balance = starting_balance

\* C11: market_buy reports the first failing check in the order InvalidAmount
\* (amount <= 0), NoPriceData (no close stored), InsufficientBalance (cash
\* below amount plus fee), and fills the order when none fails.
BuyProbeAmounts == {Num(-1), Num(0), Num(1000), Num(20000)}

C11_ExpectedBuyError(s, q) ==
    IF ~RGt(q, Zero) THEN "InvalidAmount"
    ELSE IF db.ohlcv[s] = None THEN "NoPriceData"
    ELSE IF RLt(db.account.cash_balance, RAdd(q, RMul(q, Rat(1, 1000))))
    THEN "InsufficientBalance"
    ELSE "none"

SellProbeAmounts(s) ==
    {Num(-1), Num(0), Rat(1, 100), Num(1)} \cup
    (IF db.positions[s] = None THEN {}
     ELSE {db.positions[s].amount,
           RMul(db.positions[s].amount, Num(2)),
           RDiv(db.positions[s].amount, Num(2))})

C12_ExpectedSellError(s, b) ==
    IF ~RGt(b, Zero) THEN "InvalidAmount"
    ELSE IF db.positions[s] = None THEN "NoPosition"
    ELSE IF RLt(db.positions[s].amount, b) THEN "InsufficientPosition"
    ELSE IF db.ohlcv[s] = None THEN "NoPriceData"
    ELSE "none"

C12_SellRejectionOrder ==
    \A s \in TRADING_PAIRS :
        /\ \A b \in SellProbeAmounts(s) :
              LET r == market_sell(db, s, b).result
              IN IF C12_ExpectedSellError(s, b) = "none"
                 THEN IsSuccess(r)
                 ELSE IsFailure(r) /\ r.error = C12_ExpectedSellError(s, b)
        /\ db.positions[s] # None
              => LET r == market_sell(db, s, db.positions[s].amount).result
                 IN IsFailure(r) => r.error = "NoPriceData"

\* the whole of a position was offered while no close was stored for it: the
\* request got as far as the price check
C12_Witness ==
    /\ lastOp = "sell_all"
    /\ IsFailure(lastResult)
    /\ lastResult.error = "NoPriceData"
    /\ db.positions[lastResult.symbol] # None
    /\ db.ohlcv[lastResult.symbol] = None

\* C13: a successful market_buy(symbol, q) at the stored close p takes
\* q + q x fee rate off the cash, adds q / p to the amount held of symbol,
\* stores the position (q / p, p) when there was none, and leaves the
\* position of every other symbol as it was.
HeldAmount(d, s) == IF d.positions[s] = None THEN Zero ELSE d.positions[s].amount

C13_BuyEffect ==
    [][(lastOp' = "market_buy" /\ IsSuccess(lastResult'))
        => LET s == lastResult'.symbol
               q == lastResult'.cost
               p == db.ohlcv[s]
           IN /\ RGt(q, Zero)
              /\ db'.account.cash_balance
                    = RSub(db.account.cash_balance, RAdd(q, RMul(q, Rat(1, 1000))))
              /\ HeldAmount(db', s) = RAdd(HeldAmount(db, s), RDiv(q, p))
              /\ db.positions[s] = None
                    => db'.positions[s] = [amount |-> RDiv(q, p), avg_entry_price |-> p]
              /\ \A o \in TRADING_PAIRS \ {s} : db'.positions[o] = db.positions[o]
      ]_vars

\* ETH was bought for the first time while a BTC position was open
C13_Witness ==
    /\ lastOp = "market_buy"
    /\ IsSuccess(lastResult)
    /\ lastResult.symbol = "ETH/USD"
    /\ db.positions["ETH/USD"] = [amount |-> Rat(1, 2), avg_entry_price |-> Num(2000)]
    /\ db.positions["BTC/USD"] # None
    /\ Len(db.trades) = 2

\* C14: a successful market_sell(symbol, b) at the stored close p adds
\* net = b x p - b x p x fee rate to the cash and reports the realized pnl
\* net - b x avg, avg being the average entry price before the sell.
C14_SellEffect ==
    [][(lastOp' \in SellOps /\ IsSuccess(lastResult'))
        => LET s == lastResult'.symbol
               b == lastResult'.amount
               p == db.ohlcv[s]
               avg == db.positions[s].avg_entry_price
               net == RSub(RMul(b, p), RMul(RMul(b, p), Rat(1, 1000)))
           IN /\ RGt(b, Zero)
              /\ db'.account.cash_balance = RAdd(db.account.cash_balance, net)
              /\ lastResult'.net_proceeds = net
              /\ lastResult'.pnl = RSub(net, RMul(b, avg))
      ]_vars

\* part of a position was sold at a close other than its average entry price
C14_Witness ==
    /\ lastOp = "market_sell"
    /\ IsSuccess(lastResult)
    /\ db.positions[lastResult.symbol] # None
    /\ db.positions[lastResult.symbol].avg_entry_price # lastResult.price
    /\ lastResult.pnl # RNeg(lastResult.fee)

\* C15: the trade log only grows at its end.  A successful market_buy appends
\* one buy row with pnl 0, a successful market_sell or sell_all appends one
\* sell row with the realized pnl it reports, a rejected request appends
\* nothing, and no call other than reset_account removes or changes a row.
C15_TradeLogAppendOnly ==
    [][LET old == db.trades
           new == db'.trades
           last == new[Len(new)]
       IN /\ (lastOp' = "market_buy" /\ IsSuccess(lastResult'))
                => /\ Len(new) = Len(old) + 1
                   /\ last.side = "buy"
                   /\ last.symbol = lastResult'.symbol
                   /\ last.pnl = Zero
          /\ (lastOp' \in SellOps /\ IsSuccess(lastResult'))
                => /\ Len(new) = Len(old) + 1
                   /\ last.side = "sell"
                   /\ last.symbol = lastResult'.symbol
                   /\ last.pnl = lastResult'.pnl
          /\ (lastOp' \in ExecutorOps /\ IsFailure(lastResult')) => new = old
          /\ lastOp' \notin ExecutorOps \cup {"reset_account"} => new = old
          /\ lastOp' # "reset_account"
                => /\ Len(new) >= Len(old)
                   /\ SubSeq(new, 1, Len(old)) = old
      ]_vars

\* a buy row and a sell row with a pnl, still there after the account was
\* written directly
C15_Witness ==
    /\ lastOp \in {"update_position", "update_cash_balance"}
    /\ Len(db.trades) = 2
    /\ db.trades[1].side = "buy"
    /\ db.trades[1].pnl = Zero
    /\ db.trades[2].side = "sell"
    /\ db.trades[2].pnl # Zero

\* C16: after a successful market_sell of b from the position (held, avg),
\* the position is gone when held - b <= Epsilon, the cash credited for b
\* alone and the rest discarded; otherwise the position is (held - b, avg).
C16_SellRemainder ==
    [][(lastOp' \in SellOps /\ IsSuccess(lastResult'))
        => LET s == lastResult'.symbol
               b == lastResult'.amount
               p == db.ohlcv[s]
               held == db.positions[s].amount
               avg == db.positions[s].avg_entry_price
               gross == RMul(b, p)
           IN IF RLe(RSub(held, b), Rat(1, 1000000))
              THEN /\ db'.positions[s] = None
                   /\ s \notin get_all_positions(db')
                   /\ db'.account.cash_balance
                         = RAdd(db.account.cash_balance,
                                RSub(gross, RMul(gross, Rat(1, 1000))))
              ELSE db'.positions[s] = [amount |-> RSub(held, b),
                                       avg_entry_price |-> avg]
      ]_vars

\* less than what had been bought was sold, and the position is gone
C16_Witness ==
    /\ lastOp = "market_sell"
    /\ IsSuccess(lastResult)
    /\ Len(db.trades) = 2
    /\ db.trades[1].side = "buy"
    /\ RLt(lastResult.amount, db.trades[1].amount)
    /\ db.positions[lastResult.symbol] = None

\* C17: update_position(symbol, new_amount, new_avg_price) deletes the
\* position whenever new_amount <= Epsilon, stores (new_amount,
\* new_avg_price) otherwise, and then persists the recomputed total equity.
C17_UpdatePositionClosesAtEpsilon ==
    [][lastOp' = "update_position"
        => /\ \E s \in TRADING_PAIRS :
                 /\ \E a \in SmallPositionAmounts, p \in PositionPrices :
                       db'.positions[s]
                         = IF RLe(a, Rat(1, 1000000)) THEN None
                           ELSE [amount |-> a, avg_entry_price |-> p]
                 /\ \A o \in TRADING_PAIRS \ {s} : db'.positions[o] = db.positions[o]
           /\ AllMarked(db')
                 => db'.account.total_equity
                      = RAdd(db'.account.cash_balance, MarkedValue(db'))
      ]_vars

\* C18: after any sequence of market_buy, market_sell and sell_all every
\* stored position has an amount above Epsilon, and get_all_positions
\* returns only positions above Epsilon.
C18_PositionsAboveEpsilon ==
    /\ \A s \in TRADING_PAIRS :
          db.positions[s] # None => RGt(db.positions[s].amount, Rat(1, 1000000))
    /\ \A s \in get_all_positions(db) :
          RGt(get_position(db, s).amount, Rat(1, 1000000))

\* C19: with positive closes, after any sequence of market_buy, market_sell
\* and sell_all every stored position has an average entry price above 0.
C19_AvgEntryPricePositive ==
    \A s \in TRADING_PAIRS :
        db.positions[s] # None => RGt(db.positions[s].avg_entry_price, Zero)

\* a position built by two buys at different closes: its average is a new
\* value, neither of the two closes
C19_Witness ==
    /\ lastOp = "market_buy"
    /\ IsSuccess(lastResult)
    /\ Len(db.trades) = 2
    /\ db.trades[1].side = "buy"
    /\ db.trades[1].symbol = lastResult.symbol
    /\ db.trades[1].price # lastResult.price
    /\ db.positions[lastResult.symbol].avg_entry_price
          \notin {db.trades[1].price, lastResult.price}

\* C20: get_cash_balance always returns an amount, and when the store holds
\* no account row it creates the row with the starting balance and returns
\* that balance.
C20_CashBalanceAutoInitializes ==
    [][lastOp' = "get_cash_balance"
        => /\ DOMAIN lastResult' = {"n", "d"}
           /\ IF db.account = None
              THEN /\ lastResult' = starting_balance
                   /\ db'.account = [cash_balance |-> starting_balance,
                                      total_equity |-> starting_balance]
              ELSE /\ lastResult' = db.account.cash_balance
                   /\ db' = db
      ]_vars

\* C21: calculate_total_equity returns the cash, or the override when one is
\* given, plus amount x mark price over the open positions, the mark price
\* being the latest close whenever one is stored and the average entry price
\* only when none is.
CashOverrides == {None, Num(123)}

MarkPrice(s) == IF db.ohlcv[s] # None THEN db.ohlcv[s] ELSE db.positions[s].avg_entry_price

C21_EquityMarksAtLatestPrice ==
    \A c \in CashOverrides :
        calculate_total_equity(db, c)
          = RAdd(IF c = None THEN db.account.cash_balance ELSE c,
                 SumOver([s \in TRADING_PAIRS |->
                             RMul(db.positions[s].amount, MarkPrice(s))],
                         OpenSymbols(db)))

\* C22: every call of record_equity_snapshot appends one snapshot, also when
\* its value equals the previous one, returns the equity it appended, and
\* leaves the cash, the positions and the trade log as they were.
C22_SnapshotAppendsOne ==
    [][lastOp' = "record_equity_snapshot"
        => /\ db'.equity_history = Append(db.equity_history, lastResult')
           /\ lastResult' = RAdd(db.account.cash_balance,
                                 SumOver([s \in TRADING_PAIRS |->
                                             RMul(db.positions[s].amount, MarkPrice(s))],
                                         OpenSymbols(db)))
           /\ db'.account = db.account
           /\ db'.positions = db.positions
           /\ db'.trades = db.trades
      ]_vars

\* two snapshots in a row of the same equity, a position being held
C22_Witness ==
    /\ lastOp = "record_equity_snapshot"
    /\ Len(db.equity_history) = 2
    /\ db.equity_history[1] = db.equity_history[2]
    /\ OpenSymbols(db) # {}

\* C23: sell_all(symbol) fails with NoPosition when the symbol has no
\* position; otherwise its result and its effect on the store are those of
\* market_sell(symbol, held amount), and when it succeeds the symbol has no
\* position left.
C23_SellAllIsFullMarketSell ==
    [][lastOp' = "sell_all"
        => LET s == lastResult'.symbol
           IN IF db.positions[s] = None
              THEN /\ IsFailure(lastResult')
                   /\ lastResult'.error = "NoPosition"
                   /\ db' = db
              ELSE /\ lastResult' = market_sell(db, s, db.positions[s].amount).result
                   /\ db' = market_sell(db, s, db.positions[s].amount).db
                   /\ IsSuccess(lastResult')
                         => /\ db'.positions[s] = None
                            /\ lastResult'.amount = db.positions[s].amount
                            /\ Len(db'.trades) = Len(db.trades) + 1
      ]_vars

\* the whole of what one buy had bought was sold
C23_Witness ==
    /\ lastOp = "sell_all"
    /\ IsSuccess(lastResult)
    /\ db.positions[lastResult.symbol] = None
    /\ Len(db.trades) = 2
    /\ db.trades[1].side = "buy"
    /\ db.trades[1].symbol = lastResult.symbol
    /\ lastResult.amount = db.trades[1].amount

\* a frame that meets the precondition of analyze as the specification words
\* it: three rows or more, the four columns, no value missing in the last
\* two rows
ValidFrame(df) ==
    /\ df.len >= 3
    /\ required \subseteq df.columns
    /\ NaN \notin {df.current.close, df.current.rsi, df.current.ema_fast,
                   df.current.ema_slow, df.previous.ema_fast, df.previous.ema_slow}

\* C24: on every analyze call with valid input last_crossover becomes
\* bullish when the call detects a bullish crossover, bearish when it detects
\* a bearish one, and keeps its value otherwise; it is never cleared, and the
\* position passed and the signal returned play no part.
C24_CrossoverMemory ==
    [][lastOp' = "analyze"
        => LET df == analyzed'.df
               was_above == RGt(df.previous.ema_fast, df.previous.ema_slow)
               is_above == RGt(df.current.ema_fast, df.current.ema_slow)
           IN /\ ValidFrame(df)
                    => last_crossover' = IF ~was_above /\ is_above THEN "bullish"
                                         ELSE IF was_above /\ ~is_above THEN "bearish"
                                         ELSE last_crossover
              /\ last_crossover # "none" => last_crossover' # "none"
      ]_vars

\* a SELL was returned for a held position on a call without a crossover,
\* and the bullish crossover of an earlier call is still remembered
C24_Witness ==
    /\ lastOp = "analyze"
    /\ ValidFrame(analyzed.df)
    /\ analyzed.position # None
    /\ lastResult.signal = "SELL"
    /\ ~RGt(analyzed.df.previous.ema_fast, analyzed.df.previous.ema_slow)
    /\ ~RGt(analyzed.df.current.ema_fast, analyzed.df.current.ema_slow)
    /\ last_crossover = "bullish"

C26_InvalidInputHolds ==
    (lastOp = "analyze" /\ ~ValidFrame(analyzed.df))
        => /\ lastResult.signal = "HOLD"
           /\ lastResult.confidence = Num(0)

\* C27: for valid input analyze returns BUY exactly when no position is
\* passed, rsi is below the oversold threshold, and the fast average is above
\* the slow one or the crossover remembered after this call is bullish; the
\* BUY has confidence min(100, (oversold - rsi) x 3 + 50); no call returns BUY
\* for a held position.
C27_BuyRule ==
    lastOp = "analyze"
        => LET df == analyzed.df
               rsi == df.current.rsi
               raw == RAdd(RMul(RSub(Num(30), rsi), Num(3)), Num(50))
           IN /\ lastResult.signal = "BUY" => analyzed.position = None
              /\ ValidFrame(df)
                    => /\ lastResult.signal = "BUY"
                            <=> /\ analyzed.position = None
                                /\ RLt(rsi, Num(30))
                                /\ \/ RGt(df.current.ema_fast, df.current.ema_slow)
                                   \/ last_crossover = "bullish"
                       /\ lastResult.signal = "BUY"
                            => lastResult.confidence
                                 = IF RGt(raw, Num(100)) THEN Num(100) ELSE raw

\* a BUY below full confidence, given while the fast average is not above
\* the slow one, on the strength of a remembered bullish crossover
C27_Witness ==
    /\ lastOp = "analyze"
    /\ ValidFrame(analyzed.df)
    /\ lastResult.signal = "BUY"
    /\ RLt(lastResult.confidence, Num(100))
    /\ ~RGt(analyzed.df.current.ema_fast, analyzed.df.current.ema_slow)
    /\ last_crossover = "bullish"

\* C28: for valid input with a position held, analyze returns SELL by the
\* first rule that matches: (1) rsi above the overbought threshold and the
\* fast average not above the slow one or the remembered crossover bearish,
\* with confidence min(100, (rsi - overbought) x 3 + 50); (2) a bearish
\* crossover detected on this call and rsi above 50, with confidence 60.
\* SELL is returned in no other case, and never without a position.
C28_SellRule ==
    lastOp = "analyze"
        => LET df == analyzed.df
               rsi == df.current.rsi
               raw == RAdd(RMul(RSub(rsi, Num(70)), Num(3)), Num(50))
               overbought == /\ RGt(rsi, Num(70))
                             /\ \/ RLe(df.current.ema_fast, df.current.ema_slow)
                                \/ last_crossover = "bearish"
               crossed_down == /\ RGt(df.previous.ema_fast, df.previous.ema_slow)
                               /\ RLe(df.current.ema_fast, df.current.ema_slow)
           IN /\ lastResult.signal = "SELL" => analyzed.position # None
              /\ (ValidFrame(df) /\ analyzed.position # None)
                    => IF overbought
                       THEN /\ lastResult.signal = "SELL"
                            /\ lastResult.confidence
                                  = IF RGt(raw, Num(100)) THEN Num(100) ELSE raw
                       ELSE IF crossed_down /\ RGt(rsi, Num(50))
                       THEN /\ lastResult.signal = "SELL"
                            /\ lastResult.confidence = Num(60)
                       ELSE lastResult.signal # "SELL"

\* both rules match, a bearish crossover on this call with rsi 80: the SELL
\* carries the confidence of the first rule
C28_Witness ==
    /\ lastOp = "analyze"
    /\ ValidFrame(analyzed.df)
    /\ analyzed.position # None
    /\ RGt(analyzed.df.previous.ema_fast, analyzed.df.previous.ema_slow)
    /\ RLe(analyzed.df.current.ema_fast, analyzed.df.current.ema_slow)
    /\ analyzed.df.current.rsi = Num(80)
    /\ lastResult.signal = "SELL"
    /\ lastResult.confidence = Num(80)

\* the series so far fell, then rose, the fast average crossed above the
\* slow one and the rsi dipped below the oversold threshold
FellThenRose == seq.fell /\ seq.rose /\ seq.crossed /\ seq.dipped

\* C29 as stated: over a falling-then-rising series of analyze calls with no
\* position held, in which the fast average crosses the slow one and the rsi
\* dips below the oversold threshold, analyze returns BUY on exactly one call.
C29_ExactlyOneBuy == FellThenRose => seq.buys = 1

\* C29 amended: over such a series analyze returns BUY on every call whose
\* rsi is below the oversold threshold while the fast average is above the
\* slow one or the remembered crossover is bullish, and on no other call (so
\* on none while the fast average has not yet been above the slow one): that
\* may be no call of the series, or several.
C29_BuyOnEveryOversoldBullishCall ==
    /\ seq.buys = seq.oversold_bullish
    /\ seq.buys <= seq.calls
    /\ (seq.calls > 0 /\ ~seq.crossed
            /\ ~RGt(analyzed.df.current.ema_fast, analyzed.df.current.ema_slow)
            /\ last_crossover # "bullish")
          => lastResult.signal # "BUY"

\* such a series on which BUY was returned twice, the second time on a call
\* after the one that crossed
C29_Witness ==
    /\ FellThenRose
    /\ seq.buys = 2
    /\ lastResult.signal = "BUY"
    /\ RGt(analyzed.df.previous.ema_fast, analyzed.df.previous.ema_slow)

\* lower rsi values to compare the latest call with
LowerRsi == {Num(10), Num(13), Num(15), Num(20), Num(25)}

\* the result of the latest analyze call had its rsi been r, all else equal
WithRsi(r) ==
    analyze(last_crossover, [analyzed.df EXCEPT !.current.rsi = r],
            analyzed.position).result

\* the latest call was an analyze call on valid input that returned BUY
BoughtOnValidFrame ==
    /\ lastOp = "analyze"
    /\ ValidFrame(analyzed.df)
    /\ lastResult.signal = "BUY"

\* C30 as stated: all other inputs fixed, for any two rsi values r1 < r2
\* below the oversold threshold that both yield BUY, the confidence at r1 is
\* strictly greater than the confidence at r2.
C30_ConfidenceStrictlyIncreases ==
    BoughtOnValidFrame
        => \A r1 \in LowerRsi :
              (RLt(r1, analyzed.df.current.rsi) /\ WithRsi(r1).signal = "BUY")
                  => RGt(WithRsi(r1).confidence, lastResult.confidence)

\* C30 amended: all other inputs fixed, for r1 < r2 below the oversold
\* threshold that both yield BUY, the confidence at r1 is never less than at
\* r2; it is strictly greater while the confidence at r2 is below 100, and
\* both are 100 once r2 is 40/3 or less (threshold 30).
C30_ConfidenceIncreasesUpToCap ==
    BoughtOnValidFrame
        => \A r1 \in LowerRsi :
              (RLt(r1, analyzed.df.current.rsi) /\ WithRsi(r1).signal = "BUY")
                  => /\ RGe(WithRsi(r1).confidence, lastResult.confidence)
                     /\ RLt(lastResult.confidence, Num(100))
                           => RGt(WithRsi(r1).confidence, lastResult.confidence)
                     /\ RLe(analyzed.df.current.rsi, Rat(40, 3))
                           => /\ WithRsi(r1).confidence = Num(100)
                              /\ lastResult.confidence = Num(100)
                     /\ RLe(WithRsi(r1).confidence, Num(100))

\* a BUY at rsi 20 with confidence 80, where rsi 15 would have given 95 and
\* rsi 10 the capped 100
C30_Witness ==
    /\ BoughtOnValidFrame
    /\ analyzed.df.current.rsi = Num(20)
    /\ lastResult.confidence = Num(80)
    /\ WithRsi(Num(15)).signal = "BUY"
    /\ WithRsi(Num(15)).confidence = Num(95)
    /\ WithRsi(Num(10)).confidence = Num(100)

\* the frame has three rows or more, the four columns, and a current rsi,
\* ema_fast and ema_slow that are numbers
Analysable(df) ==
    /\ df.len >= 3
    /\ required \subseteq df.columns
    /\ df.current.rsi # NaN
    /\ df.current.ema_fast # NaN
    /\ df.current.ema_slow # NaN

\* the fast average is above the slow one in the row; a missing value is
\* above nothing
Above(row) ==
    /\ row.ema_fast # NaN
    /\ row.ema_slow # NaN
    /\ RGt(row.ema_fast, row.ema_slow)

\* C31: last_crossover is changed only by analyze, on a detected crossover,
\* and by reset; reset sets it to none from any state; on_trade_executed
\* leaves it unchanged for every trade result.
C31_OnlyAnalyzeAndResetChangeMemory ==
    [][/\ last_crossover' # last_crossover
            => \/ /\ lastOp' = "analyze"
                  /\ Analysable(analyzed'.df)
                  /\ Above(analyzed'.df.previous) # Above(analyzed'.df.current)
               \/ lastOp' = "reset"
       /\ lastOp' = "reset" => last_crossover' = "none"
       /\ lastOp' = "on_trade_executed" => last_crossover' = last_crossover
      ]_vars

\* the latest analyze call detected a bullish crossover, and a reset after
\* it has cleared the memory
C31_Witness ==
    /\ lastOp = "reset"
    /\ last_crossover = "none"
    /\ analyzed # None
    /\ ValidFrame(analyzed.df)
    /\ ~RGt(analyzed.df.previous.ema_fast, analyzed.df.previous.ema_slow)
    /\ RGt(analyzed.df.current.ema_fast, analyzed.df.current.ema_slow)

\* the total cost of every buy in the trade log
LoggedBuyCost(d) ==
    SumSeq([i \in 1..Len(d.trades) |->
               RAdd(RMul(d.trades[i].amount, d.trades[i].price), d.trades[i].fee)])

\* no request is in flight and every request made is in the trade log
BuysSettled ==
    /\ \A c \in Callers : pc[c] = "idle"
    /\ Len(db.trades) = started

\* deductions may be lost but are never made twice, and with a buy logged
\* at least one deduction is there
CashWithinLoggedCosts ==
    /\ RGe(db.account.cash_balance, RSub(starting_balance, LoggedBuyCost(db)))
    /\ Len(db.trades) > 0 => RLt(db.account.cash_balance, starting_balance)

\* C32: with two market_buy requests interleaved, can_afford followed by the
\* cash write is check-then-act: the write stores the balance the request
\* read less its own total cost, whatever the balance has become since, so
\* a state is reachable in which both requests passed can_afford against
\* the same cash and the final cash_balance is not the initial cash less
\* both total costs.
C32_CashWriteIsCheckThenAct ==
    /\ [][\A c \in Callers :
             (pc[c] = "write_cash" /\ pc'[c] = "log_trade")
                 => db'.account.cash_balance = frame[c].new_cash
         ]_vars
    /\ [](BuysSettled => CashWithinLoggedCosts)

\* both requests went through and are in the trade log, yet the balance is
\* short of only one total cost
C32_Witness ==
    /\ \A c \in Callers : pc[c] = "idle"
    /\ started = 2
    /\ Len(db.trades) = 2
    /\ \E i \in 1..2 :
          db.account.cash_balance
            = RSub(starting_balance,
                   RAdd(RMul(db.trades[i].amount, db.trades[i].price), db.trades[i].fee))
    /\ RGt(db.account.cash_balance, RSub(starting_balance, LoggedBuyCost(db)))

\* what the logged trades have moved into the cash balance: each sell its
\* amount x price less the fee, each buy minus its amount x price and fee
LoggedCashFlow(d) ==
    SumSeq([i \in 1..Len(d.trades) |->
               LET t == d.trades[i]
               IN IF t.side = "buy"
                  THEN RNeg(RAdd(RMul(t.amount, t.price), t.fee))
                  ELSE RSub(RMul(t.amount, t.price), t.fee)])

\* C33: after any sequence of market_buy, market_sell and sell_all since the
\* last reset, cash_balance = starting_balance - the sum over the buy trades
\* of (amount x price + fee) + the sum over the sell trades of (amount x
\* price - fee).
C33_CashReconcilesWithTradeLog ==
    db.account.cash_balance = RAdd(starting_balance, LoggedCashFlow(db))

\* a buy and a sell are in the log and the balance is not the starting one
C33_Witness ==
    /\ Len(db.trades) = 2
    /\ db.trades[1].side = "buy"
    /\ db.trades[2].side = "sell"
    /\ db.trades[1].price # db.trades[2].price
    /\ db.account.cash_balance # starting_balance

\* executor.py 351-359: the pnl of the latest 10000 trades, here all of them
get_total_realized_pnl(d) ==
    SumSeq([i \in 1..Len(d.trades) |-> d.trades[i].pnl])

\* the fees of the buys in the trade log
BuyFees(d) ==
    SumSeq([i \in 1..Len(d.trades) |->
               IF d.trades[i].side = "buy" THEN d.trades[i].fee ELSE Zero])

\* what was bought of the symbol less what was sold of it
BoughtLessSold(d, symbol) ==
    SumSeq([i \in 1..Len(d.trades) |->
               IF d.trades[i].symbol # symbol THEN Zero
               ELSE IF d.trades[i].side = "buy" THEN d.trades[i].amount
               ELSE RNeg(d.trades[i].amount)])

\* every position is closed and no remainder was discarded on the way
ClosedWithoutDust(d) ==
    /\ OpenSymbols(d) = {}
    /\ \A s \in TRADING_PAIRS : BoughtLessSold(d, s) = Zero

\* C34: with no open position and every position closed without discarded
\* dust, cash_balance - starting_balance = the sum of realized_pnl over all
\* trades - the sum of the fees of the buy trades: get_total_realized_pnl
\* exceeds the gain of the account by the buy fees.
C34_RealizedPnlExcludesBuyFees ==
    ClosedWithoutDust(db)
        => /\ RSub(db.account.cash_balance, starting_balance)
                = RSub(get_total_realized_pnl(db), BuyFees(db))
           /\ RSub(get_total_realized_pnl(db),
                   RSub(db.account.cash_balance, starting_balance)) = BuyFees(db)

\* a position bought at one price and sold whole at another: the realized
\* pnl is above the gain of the account
C34_Witness ==
    /\ ClosedWithoutDust(db)
    /\ Len(db.trades) = 2
    /\ db.trades[1].side = "buy"
    /\ db.trades[2].side = "sell"
    /\ db.trades[1].price # db.trades[2].price
    /\ RGt(get_total_realized_pnl(db), RSub(db.account.cash_balance, starting_balance))

\* rsi values on either side of every threshold of the rules
DecisionRsi == {Num(20), Num(50), Num(60), Num(80)}

\* the signal and confidence analyze's rules give for the latest frame with
\* rsi r and the given position, under crossover memory m
DecisionUnder(m, r, position) ==
    LET result == analyze_signal(m, [analyzed.df EXCEPT !.current.rsi = r], position)
    IN <<result.signal, result.confidence>>

\* C35: when analyze is called once per row on consecutive rows of a series
\* (each call's previous row is the current row of the call before, no call
\* soft-fails), then after every call last_crossover # none implies that
\* last_crossover = bullish exactly when the current fast average is above
\* the current slow one; so the memory never makes a BUY or SELL decision
\* differ from the one the current ordering of the averages gives alone.
C35_MemoryAgreesWithCurrentOrdering ==
    seq.calls > 0
        => /\ last_crossover # "none"
                => (last_crossover = "bullish" <=> Above(analyzed.df.current))
           /\ \A r \in DecisionRsi, position \in PositionArgs :
                 DecisionUnder(last_crossover, r, position)
                   = DecisionUnder("none", r, position)

\* the averages were level on the latest row after the fast one had been
\* above: the memory is bearish, and with a position and rsi 80 the
\* decision is SELL with or without it
C35_Witness ==
    /\ seq.calls >= 2
    /\ Above(analyzed.df.previous)
    /\ analyzed.df.current.ema_fast = analyzed.df.current.ema_slow
    /\ last_crossover = "bearish"
    /\ \E position \in PositionArgs :
          /\ position # None
          /\ DecisionUnder(last_crossover, Num(80), position)[1] = "SELL"
          /\ DecisionUnder("none", Num(80), position)[1] = "SELL"

\* C36: an analyze call that soft-fails (fewer than 3 rows, a missing
\* indicator column, or a NaN current rsi, ema_fast or ema_slow) returns
\* HOLD before the crossover detection and leaves last_crossover as it
\* was, so a crossover on such a row is not recorded.
C36_SoftFailKeepsMemory ==
    [][(lastOp' = "analyze" /\ ~Analysable(analyzed'.df))
          => /\ last_crossover' = last_crossover
             /\ lastResult'.signal = "HOLD"
             /\ lastResult'.confidence = Num(0)
      ]_vars

\* the fast average crossed above the slow one on a row whose rsi is NaN,
\* and the memory is still bearish
C36_Witness ==
    /\ lastOp = "analyze"
    /\ analyzed.df.len >= 3
    /\ required \subseteq analyzed.df.columns
    /\ analyzed.df.current.rsi = NaN
    /\ ~Above(analyzed.df.previous)
    /\ Above(analyzed.df.current)
    /\ last_crossover = "bearish"

\* no candle is stored for any symbol
NoPrices(d) == \A s \in TRADING_PAIRS : d.ohlcv[s] = None

\* the ledger of a fresh account
FreshLedger(d) ==
    /\ d.account.cash_balance = starting_balance
    /\ d.account.total_equity = starting_balance
    /\ d.trades = <<>>
    /\ OpenSymbols(d) = {}

\* C37: reset_account also deletes the cached prices: after it every
\* market_buy and market_sell is rejected (a buy of a positive amount with
\* NoPriceData) and the ledger stays at cash = equity = starting_balance
\* with no trades until a new price is stored for the symbol; the reset
\* leaves last_crossover as it was.
C37_ResetDeletesPrices ==
    /\ [][/\ (lastOp' = "reset_account")
               => (/\ NoPrices(db')
                   /\ FreshLedger(db')
                   /\ last_crossover' = last_crossover)
          /\ (/\ lastOp' \in {"market_buy", "market_sell", "sell_all"}
              /\ db.ohlcv[lastResult'.symbol] = None)
               => (/\ IsFailure(lastResult')
                   /\ db' = db
                   /\ (lastOp' = "market_buy" /\ lastResult'.error # "InvalidAmount")
                         => (lastResult'.error = "NoPriceData"))
         ]_vars
    /\ [](NoPrices(db) => FreshLedger(db))

\* a reset right after a successful buy: the price the buy was made at, its
\* trade and its position are gone, and the strategy still remembers its
\* crossover
C37_Witness ==
    /\ lastOp = "reset_account"
    /\ IsSuccess(lastResult)
    /\ lastResult.side = "buy"
    /\ NoPrices(db)
    /\ FreshLedger(db)
    /\ last_crossover = "bullish"

\* the bot's trades come in turns, a buy first, and the bot holds a
\* position exactly after a buy
BuysAndSellsTakeTurns ==
    /\ \A i \in 1..Len(db.trades) :
          /\ db.trades[i].symbol = DEFAULT_SYMBOL
          /\ db.trades[i].side = IF i % 2 = 1 THEN "buy" ELSE "sell"
    /\ db.positions[DEFAULT_SYMBOL] # None <=> Len(db.trades) % 2 = 1

\* C38: in the bot loop at most one trade executes per iteration;
\* market_buy is invoked only when the bot's symbol has no position and
\* sell_all only when it has one; so between a buy that went through and
\* the next sell that did no further buy executes, and the bot's position
\* is never averaged into.
C38_BotNeverAveragesIn ==
    /\ [][(lastOp' = "run_iteration")
             => (/\ Len(db'.trades) <= Len(db.trades) + 1
                 /\ (lastResult' # None /\ lastResult'.side = "buy")
                       => (db.positions[DEFAULT_SYMBOL] = None)
                 /\ (lastResult' # None /\ lastResult'.side = "sell")
                       => (db.positions[DEFAULT_SYMBOL] # None)
                 /\ (db.positions[DEFAULT_SYMBOL] # None
                        /\ db'.positions[DEFAULT_SYMBOL] # None)
                       => (db'.positions[DEFAULT_SYMBOL] = db.positions[DEFAULT_SYMBOL]))
         ]_vars
    /\ []BuysAndSellsTakeTurns

\* the second iteration saw an oversold rsi with the fast average above the
\* slow one while the position of the first was held: no trade, and the
\* position is the one the single buy opened
C38_Witness ==
    /\ lastOp = "run_iteration"
    /\ Len(db.trades) = 1
    /\ Len(db.equity_history) = 2
    /\ analyzed # None
    /\ analyzed.position # None
    /\ analyzed.df.current.rsi = Num(20)
    /\ Above(analyzed.df.current)
    /\ lastResult = None
    /\ db.positions[DEFAULT_SYMBOL].amount = db.trades[1].amount
    /\ db.positions[DEFAULT_SYMBOL].avg_entry_price = db.trades[1].price

====
